---------------------------- MODULE Spec2Model ----------------------------
(***************************************************************************)
(* Camera choreography solver, camera integrator and pointer edit session  *)
(* of the screen-recording editor (src/components/Editor/Canvas.tsx,       *)
(* lines 1-559, and src/components/Editor/Editor.tsx, lines 1-140).        *)
(*                                                                         *)
(* Numbers.  JavaScript numbers are modelled in fixed point:               *)
(*   - normalized coordinates, zoom factors and easing values are integers *)
(*     in units of 1/One (One = 10000, so 0.05 is 500 and 1.6 is 16000);   *)
(*   - times are integers in milliseconds (0.2 s is 200, 0.35 s is 350).   *)
(* Products and quotients are rounded to the nearest unit, as a floating   *)
(* point unit rounds to the nearest representable value.                   *)
(***************************************************************************)
EXTENDS Integers, Sequences, FiniteSets, TLC

(***************************************************************************)
(* Bounds of the model.                                                    *)
(***************************************************************************)
\* number of 50 ms grid steps of the time line explored by the solver
MaxTimeSteps == 100
\* length of the recorded media, in playback steps of 350 ms
MaxMediaSteps == 4
\* animation frames run
MaxFrames == 1
\* overlays added
MaxOverlays == 2
\* pointer-downs on a draggable surface
MaxGestures == 1
\* pointer-downs on a surface of the crop rectangle
MaxCropGestures == 2

(***************************************************************************)
(* Fixed-point arithmetic.                                                 *)
(***************************************************************************)
One == 100 * 100
Half == One \div 2

\* a * b for two fixed-point numbers
Mul(a, b) == (a * b + Half) \div One
\* a / b as a fixed-point number (a, b in the same unit, b > 0)
Div(a, b) == (a * One + (b \div 2)) \div b

Max(a, b) == IF a >= b THEN a ELSE b
Min(a, b) == IF a <= b THEN a ELSE b
Abs(a) == IF a >= 0 THEN a ELSE -a

\* a JavaScript 'undefined' optional number (xEnd, yEnd)
Undefined == 0 - 1

(***************************************************************************)
(* Geometry primitives (Canvas.tsx 25-36).                                 *)
(***************************************************************************)
\* c1 = 1.70158, held as c1Num / c1Den
c1Num == 170158
c1Den == 100000
TimesC1(a) == (a * c1Num + (c1Den \div 2)) \div c1Den

\* 1 + c3 * (x-1)^3 + c1 * (x-1)^2 with c3 = c1 + 1
easeOutBackAsQuad(x) == One - Mul(One - x, One - x)
easeOutBack(x) ==
    LET d  == x - One
        d2 == Mul(d, d)
        d3 == Mul(d2, d)
    IN  One + (TimesC1(d3) + d3) + TimesC1(d2)

easeOutQuadLinear(x) == x
easeOutQuad(x) == One - Mul(One - x, One - x)

clampUpperOnly(val, min, max) == Min(max, val)
clamp(val, min, max) == Max(min, Min(max, val))

lerpToEnd(start, end, t) == end
lerpSwapped(start, end, t) == (start * t + end * (One - t) + Half) \div One
lerp(start, end, t) == (start * (One - t) + end * t + Half) \div One

(***************************************************************************)
(* Zoom events (types.ts 21-33, Editor.tsx 29-35).                         *)
(***************************************************************************)
ZoomEventTypes == {"click", "double_click", "focus", "drag", "selection", "generic"}

ZE(id, type, start, dur, x, y, xEnd, yEnd, scale) ==
    [id |-> id, type |-> type, startTime |-> start, duration |-> dur,
     x |-> x, y |-> y, xEnd |-> xEnd, yEnd |-> yEnd, scale |-> scale]

\* the first event of the editor's own list (Editor.tsx 30)
ClickEvents ==
    << ZE("1", "click", 2000, 2500, 1500, 2000, Undefined, Undefined, 16000) >>

\* the drag event of the editor's own list (Editor.tsx 32), started at 1 s
DragEvents ==
    << ZE("3", "drag", 1000, 4000, 2000, 7000, 8000, 7000, 15000) >>

\* an event near the corner at scale 4: the clamp decides the target
CornerEvents ==
    << ZE("1", "double_click", 500, 2000, 500, 500, Undefined, Undefined, 40000) >>

\* two overlapping events: "2" starts while "1" is still active
OverlapEvents ==
    << ZE("1", "click", 1000, 2000, 2000, 3000, Undefined, Undefined, 20000),
       ZE("2", "focus", 2000, 1000, 8000, 7000, Undefined, Undefined, 15000) >>

\* an event whose scale is the smallest the data model allows
UnitScaleEvents ==
    << ZE("1", "selection", 500, 1000, 5000, 4000, Undefined, Undefined, One) >>

\* a drag event without yEnd, then a click event that carries xEnd and yEnd
MixedDragEvents ==
    << ZE("1", "drag", 500, 1000, 2000, 7000, 8000, Undefined, 15000),
       ZE("2", "click", 2000, 1000, 3000, 3000, 8000, 8000, 15000) >>

\* two events 0.1 s apart: their anticipation windows overlap in [0.9, 1.0),
\* their active windows in [1.1, 2.0)
CloseEvents ==
    << ZE("1", "click", 1000, 1000, 2000, 3000, Undefined, Undefined, 20000),
       ZE("2", "focus", 1100, 1000, 8000, 7000, Undefined, Undefined, 15000) >>

\* the same two events, the later one first in the list
ReversedEvents ==
    << ZE("2", "focus", 1100, 1000, 8000, 7000, Undefined, Undefined, 15000),
       ZE("1", "click", 1000, 1000, 2000, 3000, Undefined, Undefined, 20000) >>

\* a drag event of duration 0 with an end point, then a click event
ZeroDurationEvents ==
    << ZE("1", "drag", 500, 0, 2000, 7000, 8000, 7000, 15000),
       ZE("2", "click", 1500, 1000, 3000, 3000, Undefined, Undefined, 15000) >>

EventLists == {<< >>, ClickEvents, DragEvents, CornerEvents, OverlapEvents, UnitScaleEvents,
               MixedDragEvents, CloseEvents, ReversedEvents}

(***************************************************************************)
(* Editor configuration (types.ts 8-19, 62-72).                            *)
(***************************************************************************)
ZoomSpeeds == {"slow", "default", "fast"}
StaticZooms == {One, 12000}

DEFAULT_EDITOR_CONFIG == [zoom |-> One, autoZoom |-> FALSE, zoomSpeed |-> "default"]
Configs == [zoom : StaticZooms, autoZoom : BOOLEAN, zoomSpeed : ZoomSpeeds]

(***************************************************************************)
(* Times.                                                                  *)
(***************************************************************************)
GridTimes == {k * 50 : k \in 0..MaxTimeSteps}

\* the media's real length and the times a click on the time line asks for
MediaDuration == MaxMediaSteps * 350
SeekTimes == {0 - 300, 350, 700, 1050, MediaDuration + 500}
\* the times sought while overlays and the crop are edited
PointerSeekTimes == {0 - 300, 1050}
\* event lists played back in the editor
PlaybackEventLists == {CornerEvents, UnitScaleEvents}

\* JavaScript Infinity and NaN, and the 1e101 s of the duration workaround
\* (the largest values an integer holds stand for them)
Infinity == 2147483647
NaN == 0 - 2147483647
Huge == 2000000000
IsNotNaN(v) == v # NaN
NumberIsFinite(v) == v # Infinity /\ v # NaN


(***************************************************************************)
(* State.                                                                  *)
(***************************************************************************)
VARIABLES
    \* Editor.tsx 12-23
    config,            \* the editor configuration
    isPlaying,
    currentTime,       \* the editor's playhead time (ms)
    duration,          \* the published duration (ms), 0 while unresolved
    trimRange,         \* [start, end] (ms)
    zoomEvents,        \* the ordered zoom event list
    \* Canvas.tsx 55-58
    cameraState,       \* the rendered pose [x, y, zoom]
    activeEventType,
    currentCamera,     \* the integrator's pose (a ref)
    \* the video element behind videoRef
    video,             \* [currentTime, paused, duration]
    metadata,          \* "loading", "fixing" (workaround listener attached) or "done"
    timeupdatePending, \* a 'timeupdate' event is queued for dispatch
    \* scheduling
    effectPending,     \* isPlaying was committed, its effect has not run yet
    rafQueue,          \* pending animation-frame callbacks, oldest first
    frames,            \* animation frames run so far
    solved,            \* the last call of calculateTargetCamera: its argument and result
    \* Editor.tsx 19-21
    overlays,          \* sequence of overlay items
    activeOverlayId,   \* id of the selected overlay, 0 for null
    cropState,
    \* Canvas.tsx 62-72
    dragState,         \* the pointer edit session, NoDrag for null
    \* Canvas.tsx 305-313
    windowListeners,   \* the listeners attached to window, each with the session
                       \* record its handler closed over, oldest first
    \* the pointer
    pointer,           \* [clientX, clientY] of the last mouse event (px)
    gestures,          \* pointer-downs on a draggable surface so far
    created,           \* overlays created so far (each got a fresh id)
    \* App.tsx 9-15
    appState,          \* "IDLE", "RECORDING", "PROCESSING" or "EDITING"
    videoMetadata,     \* TRUE once the recording's metadata is set, FALSE for null
    isPaused,
    mediaRecorderRef,  \* index of the recorder in the ref, 0 for null
    recorders,         \* the MediaRecorder of every recording started, with its
                       \* state, whether its 'stop' event is queued, whether its
                       \* screen track is live, and the onstop runs so far
    starting,          \* invocations of startRecording waiting for the user's grant
    started,           \* clicks on Start Recording so far
    timers             \* pending timeouts of the processing delay

appVars == << appState, videoMetadata, isPaused, mediaRecorderRef, recorders,
              starting, started, timers >>

vars == << config, isPlaying, currentTime, duration, trimRange, zoomEvents, appVars,
           cameraState, activeEventType, currentCamera, video, metadata,
           timeupdatePending, effectPending, rafQueue, frames, solved,
           overlays, activeOverlayId, cropState, dragState, windowListeners, pointer, gestures,
           created >>

editVars == << overlays, activeOverlayId, cropState, dragState, windowListeners, pointer, gestures,
               created >>

editorCamVars == << config, isPlaying, currentTime, duration, trimRange >>
canvasCamVars == << cameraState, activeEventType, currentCamera >>
videoVars == << video, metadata, timeupdatePending >>
schedVars == << effectPending, rafQueue, frames >>
editorVars == << editVars, editorCamVars, zoomEvents, canvasCamVars, videoVars,
                schedVars, solved >>

(***************************************************************************)
(* CameraSolver (Canvas.tsx 110-161).                                      *)
(***************************************************************************)
\* Array.prototype.find over indices: the first of the hits, 0 if none
LastOf(hits) ==
    IF hits = {} THEN 0 ELSE CHOOSE i \in hits : \A j \in hits : i >= j
FirstOf(hits) ==
    IF hits = {} THEN 0 ELSE CHOOSE i \in hits : \A j \in hits : i <= j

InAnticipationClosedEnd(e, time) ==
    time >= e.startTime - 200 /\ time <= e.startTime
InAnticipation(e, time) ==
    time >= e.startTime - 200 /\ time < e.startTime
InActiveClosedEnd(e, time) ==
    time >= e.startTime /\ time <= e.startTime + e.duration
InActive(e, time) ==
    time >= e.startTime /\ time < e.startTime + e.duration

\* Canvas.tsx 115, 116
FindPreZoomEvent(events, time) ==
    FirstOf({i \in 1..Len(events) : InAnticipation(events[i], time)})
FindActiveEvent(events, time) ==
    FirstOf({i \in 1..Len(events) : InActive(events[i], time)})

\* Canvas.tsx 118, 124: the branch taken, the anticipation one first
PhaseActiveFirst(pre, act) ==
    IF act # 0 THEN "active" ELSE IF pre # 0 THEN "anticipation" ELSE "idle"
Phase(pre, act) ==
    IF pre # 0 THEN "anticipation" ELSE IF act # 0 THEN "active" ELSE "idle"

calculateTargetCamera(time, cfg, events) ==
    LET pre == FindPreZoomEvent(events, time)
        act == FindActiveEvent(events, time)
        raw ==
          IF ~cfg.autoZoom \/ Phase(pre, act) = "idle"
          THEN [x |-> Half, y |-> Half, zoom |-> cfg.zoom, eventType |-> "null"]
          ELSE IF Phase(pre, act) = "anticipation"
          THEN LET preZoomEvent == events[pre]
                   t == Div(time - (preZoomEvent.startTime - 200), 200)
                   easedT == easeOutQuad(t)
               IN  [x |-> Half + Mul(Mul(preZoomEvent.x - Half, 1000), easedT),
                    y |-> Half + Mul(Mul(preZoomEvent.y - Half, 1000), easedT),
                    zoom |-> cfg.zoom + Mul(500, easedT),
                    eventType |-> "null"]
          ELSE LET activeEvent == events[act]
                   transitionDuration == 350
                   timeInEvent == time - activeEvent.startTime
                   isDrag == /\ activeEvent.type = "drag"
                             /\ activeEvent.xEnd # Undefined
                             /\ activeEvent.yEnd # Undefined
                   dragProgress == Min(One, Div(timeInEvent, activeEvent.duration))
                   eventTargetX == IF isDrag
                                   THEN lerp(activeEvent.x, activeEvent.xEnd, dragProgress)
                                   ELSE activeEvent.x
                   eventTargetY == IF isDrag
                                   THEN lerp(activeEvent.y, activeEvent.yEnd, dragProgress)
                                   ELSE activeEvent.y
               IN  IF timeInEvent < transitionDuration
                   THEN LET t == Div(timeInEvent, transitionDuration)
                            easedT == easeOutBack(t)
                            startZoom == cfg.zoom + 500
                            posEasedT == easeOutQuad(t)
                        IN  [x |-> Half + Mul(eventTargetX - Half, posEasedT),
                             y |-> Half + Mul(eventTargetY - Half, posEasedT),
                             zoom |-> startZoom + Mul(activeEvent.scale - startZoom, easedT),
                             eventType |-> activeEvent.type]
                   ELSE [x |-> eventTargetX, y |-> eventTargetY,
                         zoom |-> activeEvent.scale, eventType |-> activeEvent.type]
        halfVisibleW == Div(Half, raw.zoom)
        halfVisibleH == Div(Half, raw.zoom)
    IN  [x |-> clamp(raw.x, halfVisibleW, One - halfVisibleW),
         y |-> clamp(raw.y, halfVisibleH, One - halfVisibleH),
         zoom |-> raw.zoom,
         eventType |-> raw.eventType]

NoCall == [time |-> 0 - 1, x |-> Half, y |-> Half, zoom |-> One, eventType |-> "null"]
CallFromPose(t, cfg, events) ==
    [time |-> t] @@ [calculateTargetCamera(t, cfg, events) EXCEPT
                        !.zoom = Max(@, currentCamera.zoom)]
Call(t, cfg, events) ==
    [time |-> t] @@ calculateTargetCamera(t, cfg, events)
PoseKeepingZoom(r) == [x |-> r.x, y |-> r.y, zoom |-> One]
Pose(r) == [x |-> r.x, y |-> r.y, zoom |-> r.zoom]

\* dragState = null
NoDrag == [type |-> "none", targetId |-> 0, handle |-> "none",
           startX |-> 0, startY |-> 0,
           initialX |-> 0, initialY |-> 0, initialW |-> 0, initialH |-> 0]

(***************************************************************************)
(* Initial state: the editor as mounted (Editor.tsx 12-36, Canvas.tsx      *)
(* 55-72), the mount-time pause effect already run on the empty video.     *)
(***************************************************************************)
\* App.tsx 156-158: the editor is mounted, after one recording was made
\* and stopped and the processing delay has passed
AppEditing ==
    /\ appState = "EDITING"
    /\ videoMetadata = TRUE
    /\ isPaused = FALSE
    /\ mediaRecorderRef = 1
    /\ recorders = << [state |-> "inactive", stopQueued |-> FALSE,
                       trackLive |-> FALSE, stops |-> 1] >>
    /\ starting = 0
    /\ started = 1
    /\ timers = 0

EditorInit(cfgs, lists) ==
    /\ config \in cfgs
    /\ isPlaying = FALSE
    /\ currentTime = 0
    /\ duration = 0
    /\ trimRange = [start |-> 0, end |-> 0]
    /\ zoomEvents \in lists
    /\ cameraState = [x |-> Half, y |-> Half, zoom |-> One]
    /\ activeEventType = "null"
    /\ currentCamera = [x |-> Half, y |-> Half, zoom |-> One]
    /\ video = [currentTime |-> 0, paused |-> TRUE, duration |-> NaN]
    /\ metadata = "loading"
    /\ timeupdatePending = FALSE
    /\ effectPending = FALSE
    /\ rafQueue = << >>
    /\ frames = 0
    /\ solved = NoCall
    /\ overlays = << >>
    /\ activeOverlayId = 0
    /\ cropState = [active |-> FALSE, x |-> 0, y |-> 0, width |-> One, height |-> One]
    /\ dragState = NoDrag
    /\ windowListeners = << >>
    /\ pointer = [clientX |-> 340, clientY |-> 165]
    /\ gestures = 0
    /\ created = 0

InitWith(cfgs, lists) == EditorInit(cfgs, lists) /\ AppEditing

Init == InitWith({DEFAULT_EDITOR_CONFIG}, PlaybackEventLists)

(***************************************************************************)
(* Animation frames (window.requestAnimationFrame / cancelAnimationFrame). *)
(* A queued callback is the animate closure of the render that requested   *)
(* it, with the props that render saw; 'latest' marks the request whose id *)
(* animationFrameRef holds.                                                *)
(***************************************************************************)
Closure(cfg, trim, playing) ==
    [config |-> cfg, trimRange |-> trim, isPlaying |-> playing, latest |-> TRUE]

requestAnimationFrame(queue, closure) ==
    Append([i \in 1..Len(queue) |-> [queue[i] EXCEPT !.latest = FALSE]], closure)

cancelNothing(queue) == queue
cancelAnimationFrame(queue) ==
    SelectSeq(queue, LAMBDA c : ~c.latest)

(***************************************************************************)
(* CameraIntegrator (Canvas.tsx 75-107, 163-202).                          *)
(***************************************************************************)
getLerpFactorSwapped(cfg) ==
    CASE cfg.zoomSpeed = "slow" -> 1500
      [] cfg.zoomSpeed = "fast" -> 300
      [] OTHER -> 800
getLerpFactor(cfg) ==
    CASE cfg.zoomSpeed = "slow" -> 300
      [] cfg.zoomSpeed = "fast" -> 1500
      [] OTHER -> 800

\* Timeline.tsx 316: the play / pause button
TogglePlay ==
    /\ ~effectPending
    /\ isPlaying' = ~isPlaying
    /\ effectPending' = TRUE
    /\ UNCHANGED << config, currentTime, duration, trimRange, zoomEvents, appVars,
                    canvasCamVars, videoVars, rafQueue, frames, solved >>
    /\ UNCHANGED editVars

\* Canvas.tsx 75-99: the effect on isPlaying, after the previous run's cleanup
PlaybackEffect ==
    /\ effectPending
    /\ effectPending' = FALSE
    /\ LET cleaned == cancelAnimationFrame(rafQueue)
       IN  IF isPlaying
           THEN LET t == video.currentTime
                    restart == t >= trimRange.end \/ t < trimRange.start
                IN  /\ video' = [video EXCEPT
                                   !.currentTime = IF restart THEN trimRange.start ELSE t,
                                   !.paused = FALSE]
                    /\ timeupdatePending' = (timeupdatePending \/ restart)
                    /\ rafQueue' = requestAnimationFrame(cleaned,
                                        Closure(config, trimRange, isPlaying))
                    /\ UNCHANGED << canvasCamVars, frames, solved >>
           ELSE LET r == Call(video.currentTime, config, zoomEvents)
                IN  /\ video' = [video EXCEPT !.paused = TRUE]
                    /\ timeupdatePending' = (timeupdatePending \/ ~video.paused)
                    /\ cameraState' = Pose(r)
                    /\ currentCamera' = Pose(r)
                    /\ activeEventType' = r.eventType
                    /\ solved' = r
                    /\ rafQueue' = cancelAnimationFrame(cleaned)
                    /\ UNCHANGED frames
    /\ UNCHANGED << editorCamVars, zoomEvents, appVars, metadata >>
    /\ UNCHANGED editVars

\* Canvas.tsx 163-186: one animation frame running the oldest queued closure.
\* A counted frame is one of the MaxFrames frames of a bounded run.
animate(counted) ==
    /\ rafQueue # << >>
    /\ counted => frames < MaxFrames
    /\ LET c == Head(rafQueue)
           t == video.currentTime
           loop == c.trimRange.end > 0 /\ t >= c.trimRange.end
           r == Call(t, c.config, zoomEvents)
           factor == getLerpFactor(c.config)
           next == [x |-> lerp(currentCamera.x, r.x, factor),
                    y |-> lerp(currentCamera.y, r.y, factor),
                    zoom |-> lerp(currentCamera.zoom, r.zoom, factor)]
       IN  /\ video' = [video EXCEPT
                          !.currentTime = IF loop THEN c.trimRange.start ELSE t]
           /\ timeupdatePending' = (timeupdatePending \/ loop)
           /\ currentCamera' = next
           /\ cameraState' = next
           /\ activeEventType' = r.eventType
           /\ solved' = r
           /\ rafQueue' = IF c.isPlaying
                          THEN requestAnimationFrame(Tail(rafQueue), c)
                          ELSE Tail(rafQueue)
    /\ frames' = IF counted THEN frames + 1 ELSE frames
    /\ UNCHANGED << editorCamVars, zoomEvents, appVars, metadata, effectPending >>
    /\ UNCHANGED editVars

Tick == animate(TRUE)

\* Editor.tsx 38-44
handleDurationChange(d, trim) ==
    [duration |-> d,
     trimRange |-> IF trim.end = 0 THEN [start |-> 0, end |-> d] ELSE trim]

\* Canvas.tsx 392-408: onLoadedMetadata, fired once by the video element,
\* which reports one of the given durations
\* video.duration as the browser reports it: the length of the media, or
\* Infinity for a recording whose length is not known yet
ReportedDurations == {MediaDuration, Infinity}
\* ... or NaN while no metadata is available
AllDurations == {NaN, MediaDuration, Infinity}

onLoadedMetadata(durations) ==
    /\ metadata = "loading"
    /\ \E d \in durations :
         IF d = Infinity
         THEN /\ video' = [video EXCEPT !.duration = d, !.currentTime = Huge]
              /\ metadata' = "fixing"
              /\ timeupdatePending' = TRUE
              /\ UNCHANGED << duration, trimRange >>
         ELSE /\ video' = [video EXCEPT !.duration = d]
              /\ metadata' = "done"
              /\ IF NumberIsFinite(d)
                 THEN LET h == handleDurationChange(d, trimRange)
                      IN  duration' = h.duration /\ trimRange' = h.trimRange
                 ELSE UNCHANGED << duration, trimRange >>
              /\ UNCHANGED timeupdatePending
    /\ UNCHANGED << config, isPlaying, currentTime, zoomEvents, appVars, canvasCamVars,
                    schedVars, solved >>
    /\ UNCHANGED editVars

\* a recording: the browser knows its length or reports Infinity
LoadedMetadata == onLoadedMetadata(ReportedDurations)

\* Canvas.tsx 188-202 (handleTimeUpdate) followed, while the duration
\* workaround is armed, by its once-listener fixDuration (Canvas.tsx 398-404):
\* the dispatch of one 'timeupdate' event
TimeUpdateEvent ==
    /\ timeupdatePending
    /\ LET t == video.currentTime
           accepted == NumberIsFinite(t) /\ ~(t > 1000000 * 1000)
           r == Call(t, config, zoomEvents)
       IN  /\ currentTime' = IF accepted THEN t ELSE currentTime
           /\ IF accepted /\ ~isPlaying
              THEN /\ cameraState' = Pose(r)
                   /\ currentCamera' = Pose(r)
                   /\ activeEventType' = r.eventType
                   /\ solved' = r
              ELSE UNCHANGED << canvasCamVars, solved >>
    /\ IF metadata = "fixing"
       THEN \E d \in ReportedDurations :
              /\ video' = [video EXCEPT !.currentTime = 0, !.duration = d]
              /\ metadata' = "done"
              /\ timeupdatePending' = TRUE
              /\ IF NumberIsFinite(d)
                 THEN LET h == handleDurationChange(d, trimRange)
                      IN  duration' = h.duration /\ trimRange' = h.trimRange
                 ELSE UNCHANGED << duration, trimRange >>
       ELSE /\ timeupdatePending' = FALSE
            /\ UNCHANGED << video, metadata, duration, trimRange >>
    /\ UNCHANGED << config, isPlaying, zoomEvents, appVars, schedVars >>
    /\ UNCHANGED editVars

\* Editor.tsx 46-56
handleSeekByDelta(time) ==
    /\ NumberIsFinite(time)
    /\ LET clampedTime == Max(0, Min(video.currentTime + time, duration))
       IN  /\ video' = [video EXCEPT !.currentTime = clampedTime]
           /\ currentTime' = clampedTime
           /\ timeupdatePending' = TRUE
    /\ UNCHANGED << config, isPlaying, duration, trimRange, zoomEvents, appVars,
                    canvasCamVars, metadata, schedVars, solved >>
    /\ UNCHANGED editVars
handleSeek(time) ==
    /\ NumberIsFinite(time)
    /\ LET clampedTime == Max(0, Min(time, duration))
       IN  /\ video' = [video EXCEPT !.currentTime = clampedTime]
           /\ currentTime' = clampedTime
           /\ timeupdatePending' = TRUE
    /\ UNCHANGED << config, isPlaying, duration, trimRange, zoomEvents, appVars,
                    canvasCamVars, metadata, schedVars, solved >>
    /\ UNCHANGED editVars

\* Timeline.tsx 312, 320: the skip buttons
SkipBack == handleSeek(Max(trimRange.start, currentTime - 5000))
SkipForward == handleSeek(Min(trimRange.end, currentTime + 5000))

\* Timeline.tsx 327-337: a click on the track.  x is (e.clientX - rect.left)
\* / rect.width, which is Infinity or NaN for a track of width 0; the product
\* with the duration follows IEEE 754 (Infinity * 0 is NaN)
ClickOffsets == {NaN, 0 - 2000, 2500, 7500, 12000, Infinity}
TimesDuration(x) ==
    IF x = NaN THEN NaN
    ELSE IF x = Infinity THEN (IF duration = 0 THEN NaN ELSE Infinity)
    ELSE Mul(x, duration)
TrackClick(x) == handleSeek(TimesDuration(x))

\* the video element playing: the playhead moves on by 350 ms
VideoAdvance ==
    /\ ~video.paused
    /\ metadata = "done"
    /\ video.currentTime < MediaDuration
    /\ video' = [video EXCEPT !.currentTime = Min(video.currentTime + 350, MediaDuration)]
    /\ timeupdatePending' = TRUE
    /\ UNCHANGED << editorCamVars, zoomEvents, appVars, canvasCamVars, metadata,
                    schedVars, solved >>
    /\ UNCHANGED editVars

\* Timeline.tsx 160-176: a pointer move while a trim handle is dragged, the
\* pointer over the given time of the track
TrimDrags == {[handle |-> "start", time |-> 350], [handle |-> "end", time |-> 1050]}

TrimHandleMove(isDraggingHandle, time) ==
    /\ duration # 0
    /\ trimRange' =
          IF isDraggingHandle = "start"
          THEN [trimRange EXCEPT !.start = Min(Max(0, time), trimRange.end - 500)]
          ELSE [trimRange EXCEPT !.end = Max(Min(duration, time), trimRange.start + 500)]
    /\ UNCHANGED << config, isPlaying, currentTime, duration, zoomEvents, appVars,
                    canvasCamVars, videoVars, schedVars, solved >>
    /\ UNCHANGED editVars

\* Timeline.tsx 163-166: the time under the pointer, x being the pointer's
\* offset on the track as a fraction of the track's width (units of 1/One)
TrackTime(x) == Mul(Max(0, Min(One, x)), duration)

\* pointer offsets on the track: left of it, on it, right of it
TrackOffsets == {0 - 2000, 0, 2500, 5000, 7500, One, 12000}
TrimHandles == {"end", "start"}

\* Timeline.tsx 160-176 with the pointer at offset x of the track
handleTrimMouseMove(isDraggingHandle, x) ==
    TrimHandleMove(isDraggingHandle, TrackTime(x))

\* Timeline.tsx 200, 203, 204: the percentages drawn on the track (units of
\* 1/One percent)
progress == IF duration > 0 THEN Div(currentTime, duration) * 100 ELSE 0
trimStartPct == IF duration > 0 THEN Div(trimRange.start, duration) * 100 ELSE 0
trimEndPct == IF duration > 0 THEN Div(trimRange.end, duration) * 100 ELSE 100 * One

\* the sidebar's handleChange (src/unnamed/part_000 14-16, 142, 163)
SetConfig ==
    /\ \E c \in Configs :
         /\ c.zoom = config.zoom
         /\ \/ c.autoZoom # config.autoZoom /\ c.zoomSpeed = config.zoomSpeed
            \/ c.autoZoom = config.autoZoom /\ c.zoomSpeed # config.zoomSpeed
         /\ config' = c
    /\ UNCHANGED << isPlaying, currentTime, duration, trimRange, zoomEvents, appVars,
                    canvasCamVars, videoVars, schedVars, solved >>
    /\ UNCHANGED editVars

(***************************************************************************)
(* Overlay and crop state of the editor (Editor.tsx 58-81, 135).           *)
(***************************************************************************)
OverlayTypes == {"blur", "spotlight"}

IndexOf(items, id) ==
    FirstOf({i \in 1..Len(items) : items[i].id = id})

\* { ...o, ...updates }
Merge(o, updates) ==
    [f \in DOMAIN o |-> IF f \in DOMAIN updates THEN updates[f] ELSE o[f]]

\* Editor.tsx 74-76
handleUpdateOverlay(items, id, updates) ==
    [i \in 1..Len(items) |->
        IF items[i].id = id THEN Merge(items[i], updates) ELSE items[i]]

\* Editor.tsx 61: Math.random().toString(36).substr(2, 9), taken as an id no
\* earlier overlay has got
RepeatedId(count) == 1
RandomId(count) == count + 1

\* Editor.tsx 58-72, from the timeline's two add buttons (Timeline.tsx 271, 281)
handleAddOverlay(type) ==
    /\ created < MaxOverlays
    /\ ~effectPending
    /\ created' = created + 1
    /\ LET newOverlay == [id |-> RandomId(created), type |-> type,
                          startTime |-> currentTime, duration |-> 3000,
                          x |-> 3500, y |-> 3500, width |-> 3000, height |-> 3000]
       IN  /\ overlays' = Append(overlays, newOverlay)
           /\ activeOverlayId' = newOverlay.id
    /\ isPlaying' = FALSE
    /\ effectPending' = isPlaying
    /\ UNCHANGED << config, currentTime, duration, trimRange, zoomEvents, appVars,
                    canvasCamVars, videoVars, rafQueue, frames, solved,
                    cropState, dragState, windowListeners, pointer, gestures >>

handleDeleteOverlayKeepingSelection(id) ==
    /\ overlays' = SelectSeq(overlays, LAMBDA o : o.id # id)
    /\ UNCHANGED << editorCamVars, zoomEvents, appVars, canvasCamVars, videoVars,
                    schedVars, solved, activeOverlayId, cropState, dragState,
                    windowListeners, pointer, gestures, created >>

\* Editor.tsx 78-81
handleDeleteOverlay(id) ==
    /\ overlays' = SelectSeq(overlays, LAMBDA o : o.id # id)
    /\ activeOverlayId' = IF activeOverlayId = id THEN 0 ELSE activeOverlayId
    /\ UNCHANGED << editorCamVars, zoomEvents, appVars, canvasCamVars, videoVars,
                    schedVars, solved, cropState, dragState, windowListeners, pointer,
                    gestures, created >>

\* Canvas.tsx 485, Timeline.tsx 427 (an overlay), Canvas.tsx 352-354 (id 0:
\* a click on the empty canvas)
onSelectOverlay(id) ==
    /\ activeOverlayId' = id
    /\ UNCHANGED << editorCamVars, zoomEvents, appVars, canvasCamVars, videoVars,
                    schedVars, solved, overlays, cropState, dragState, windowListeners,
                    pointer, gestures, created >>

\* Editor.tsx 135
onToggleCrop ==
    /\ cropState' = [cropState EXCEPT !.active = ~cropState.active]
    /\ UNCHANGED << editorCamVars, zoomEvents, appVars, canvasCamVars, videoVars,
                    schedVars, solved, overlays, activeOverlayId, dragState, windowListeners,
                    pointer, gestures, created >>

(***************************************************************************)
(* PointerEditSession (Canvas.tsx 206-314).                                *)
(***************************************************************************)
\* the laid-out size of the content box in px: the 16:9 frame of at most
\* 800 px (Canvas.tsx 319) less the padding of 60 px on each side (types.ts 63)
ContainerWidth == 800 - 2 * 60
ContainerHeight == 450 - 2 * 60

\* containerRef is the element that carries the camera transform (Canvas.tsx
\* 378-385): its bounding rectangle is the laid-out box scaled by the zoom.
\* Width and height are in units of 1/One px.
getBoundingClientRect(zoom) ==
    [width |-> ContainerWidth * zoom, height |-> ContainerHeight * zoom]

\* rect.width / zoom, in px
PerZoom(extent, zoom) == (extent + (zoom \div 2)) \div zoom

\* Canvas.tsx 246-249: the normalized delta of a pointer move
PointerDelta(e, drag, zoom) ==
    LET rect == getBoundingClientRect(zoom)
    IN  [dx |-> Div(e.clientX - drag.startX, PerZoom(rect.width, zoom)),
         dy |-> Div(e.clientY - drag.startY, PerZoom(rect.height, zoom))]

Includes(handle, letter) ==
    \E i \in 1..Len(handle) : SubSeq(handle, i, i) = letter

\* Canvas.tsx 414-418, 461-466: the overlay is rendered
IsRenderedInWindowOnly(item) ==
    LET videoTime == video.currentTime
    IN  videoTime >= item.startTime /\ videoTime < item.startTime + item.duration
IsRendered(item) ==
    LET videoTime == video.currentTime
        isVisible == videoTime >= item.startTime
                     /\ videoTime < item.startTime + item.duration
    IN  isVisible \/ activeOverlayId = item.id

PointerPositions ==
    { [clientX |-> 340, clientY |-> 165], [clientX |-> 68, clientY |-> 33] }
\* the crop rectangle is also dragged across more than the container's width
CropPositions == PointerPositions \cup { [clientX |-> 816, clientY |-> 429] }
Handles == {<<"t","l">>, <<"t","r">>, <<"b","l">>, <<"b","r">>}

\* Canvas.tsx 206-240
\* Canvas.tsx 305-313: the effect of a render with the session record drag.
\* Its cleanup has removed the listeners of the render before; it attaches
\* handlers that close over drag when there is a session
DragListeners(drag) ==
    IF drag = NoDrag THEN << >>
    ELSE << [event |-> "mousemove", dragState |-> drag],
            [event |-> "mouseup", dragState |-> drag] >>
ListenersFor(event) == SelectSeq(windowListeners, LAMBDA l : l.event = event)

handleMouseDown(e, type, targetId, handle) ==
    /\ gestures' = gestures + 1
    /\ pointer' = e
    /\ LET crop == type \in {"crop_resize", "crop_move"}
           i == IndexOf(overlays, targetId)
           found == ~crop /\ targetId # 0 /\ i # 0
       IN  /\ dragState' =
                [type |-> type, targetId |-> targetId, handle |-> handle,
                 startX |-> e.clientX, startY |-> e.clientY,
                 initialX |-> IF crop THEN cropState.x
                              ELSE IF found THEN overlays[i].x ELSE 0,
                 initialY |-> IF crop THEN cropState.y
                              ELSE IF found THEN overlays[i].y ELSE 0,
                 initialW |-> IF crop THEN cropState.width
                              ELSE IF found THEN overlays[i].width ELSE 0,
                 initialH |-> IF crop THEN cropState.height
                              ELSE IF found THEN overlays[i].height ELSE 0]
           /\ activeOverlayId' = IF found THEN targetId ELSE activeOverlayId
    /\ windowListeners' = DragListeners(dragState')
    /\ UNCHANGED << editorCamVars, zoomEvents, appVars, canvasCamVars, videoVars,
                    schedVars, solved, overlays, cropState, created >>

\* the draggable surfaces that are rendered (Canvas.tsx 482-504, 525-536)
OverlayBodyDown(e, i) ==
    /\ IsRendered(overlays[i])
    /\ handleMouseDown(e, "move", overlays[i].id, "none")

OverlayHandleDown(e, i, pos) ==
    /\ IsRendered(overlays[i])
    /\ activeOverlayId = overlays[i].id
    /\ handleMouseDown(e, "resize", overlays[i].id, pos)

MouseDownOverlay ==
    /\ gestures < MaxGestures
    /\ \E e \in PointerPositions :
         \/ \E i \in 1..Len(overlays) : OverlayBodyDown(e, i)
         \/ \E i \in 1..Len(overlays), pos \in Handles : OverlayHandleDown(e, i, pos)

MouseDownCropAt(positions, limit) ==
    /\ gestures < limit
    /\ cropState.active
    /\ \E e \in positions :
         \/ handleMouseDown(e, "crop_move", 0, "none")
         \/ \E pos \in Handles : handleMouseDown(e, "crop_resize", 0, pos)

MouseDownCrop == MouseDownCropAt(CropPositions, MaxCropGestures)

\* Canvas.tsx 256-270 and 271-285: the handle-dependent edge adjustment
ResizedKeepingOrigin(drag, d) ==
    LET l == Includes(drag.handle, "l")
        r == Includes(drag.handle, "r")
        t == Includes(drag.handle, "t")
        b == Includes(drag.handle, "b")
    IN  [x |-> drag.initialX,
         y |-> drag.initialY,
         width |-> drag.initialW - (IF l THEN d.dx ELSE 0) + (IF r THEN d.dx ELSE 0),
         height |-> drag.initialH - (IF t THEN d.dy ELSE 0) + (IF b THEN d.dy ELSE 0)]
Resized(drag, d) ==
    LET l == Includes(drag.handle, "l")
        r == Includes(drag.handle, "r")
        t == Includes(drag.handle, "t")
        b == Includes(drag.handle, "b")
    IN  [x |-> drag.initialX + (IF l THEN d.dx ELSE 0),
         y |-> drag.initialY + (IF t THEN d.dy ELSE 0),
         width |-> drag.initialW - (IF l THEN d.dx ELSE 0) + (IF r THEN d.dx ELSE 0),
         height |-> drag.initialH - (IF t THEN d.dy ELSE 0) + (IF b THEN d.dy ELSE 0)]

\* Canvas.tsx 267-268: if (newW < 0.05) newW = 0.05
UnflooredSize(size) == size
FlooredSize(size) == IF size < 500 THEN 500 ELSE size

\* Canvas.tsx 251-255: the update a move session passes to onUpdateOverlay
MoveUpdateClamped(drag, d) ==
    [x |-> Max(0, drag.initialX + d.dx), y |-> Max(0, drag.initialY + d.dy)]
MoveUpdate(drag, d) ==
    [x |-> drag.initialX + d.dx, y |-> drag.initialY + d.dy]

\* the session record seen by the mousemove handler that is attached: the one
\* of the render whose effect attached it (Canvas.tsx 243-244, 305-306)
CapturedDrag ==
    LET moves == ListenersFor("mousemove")
    IN  IF moves = << >> THEN NoDrag ELSE moves[Len(moves)].dragState

\* Canvas.tsx 243-299, on the window while a session is open (305-308)
handleMouseMove(e) ==
    /\ pointer' = e
    /\ IF CapturedDrag = NoDrag
       THEN UNCHANGED << overlays, cropState >>
       ELSE LET d == PointerDelta(e, CapturedDrag, cameraState.zoom)
                hasHandle == CapturedDrag.handle # "none"
            IN  IF CapturedDrag.type = "move" /\ CapturedDrag.targetId # 0
                THEN /\ overlays' = handleUpdateOverlay(overlays, CapturedDrag.targetId,
                                                        MoveUpdate(CapturedDrag, d))
                     /\ UNCHANGED cropState
                ELSE IF CapturedDrag.type = "resize" /\ CapturedDrag.targetId # 0 /\ hasHandle
                THEN LET n == Resized(CapturedDrag, d)
                     IN  /\ overlays' = handleUpdateOverlay(overlays, CapturedDrag.targetId,
                                 [x |-> n.x, y |-> n.y,
                                  width |-> FlooredSize(n.width),
                                  height |-> FlooredSize(n.height)])
                         /\ UNCHANGED cropState
                ELSE IF CapturedDrag.type = "crop_resize" /\ hasHandle
                THEN LET n == Resized(CapturedDrag, d)
                     IN  /\ cropState' = [cropState EXCEPT
                                 !.x = Max(0, n.x), !.y = Max(0, n.y),
                                 !.width = n.width, !.height = n.height]
                         /\ UNCHANGED overlays
                ELSE IF CapturedDrag.type = "crop_move"
                THEN LET maxX == One - CapturedDrag.initialW
                         maxY == One - CapturedDrag.initialH
                     IN  /\ cropState' = [cropState EXCEPT
                                 !.x = Max(0, Min(maxX, CapturedDrag.initialX + d.dx)),
                                 !.y = Max(0, Min(maxY, CapturedDrag.initialY + d.dy))]
                         /\ UNCHANGED overlays
                ELSE UNCHANGED << overlays, cropState >>
    /\ UNCHANGED << editorCamVars, zoomEvents, appVars, canvasCamVars, videoVars,
                    schedVars, solved, activeOverlayId, dragState, windowListeners, gestures,
                    created >>

\* Canvas.tsx 301-303
handleMouseUpLeavingListeners ==
    /\ ListenersFor("mouseup") # << >>
    /\ dragState # NoDrag
    /\ dragState' = NoDrag
    /\ UNCHANGED << editorCamVars, zoomEvents, appVars, canvasCamVars, videoVars,
                    schedVars, solved, overlays, activeOverlayId, cropState,
                    windowListeners, pointer, gestures, created >>
handleMouseUpResettingCamera ==
    /\ ListenersFor("mouseup") # << >>
    /\ dragState' = NoDrag
    /\ windowListeners' = DragListeners(dragState')
    /\ cameraState' = [x |-> Half, y |-> Half, zoom |-> One]
    /\ currentCamera' = [x |-> Half, y |-> Half, zoom |-> One]
    /\ UNCHANGED << editorCamVars, zoomEvents, appVars, activeEventType, videoVars,
                    schedVars, solved, overlays, activeOverlayId, cropState,
                    pointer, gestures, created >>
handleMouseUpRollingBack ==
    /\ ListenersFor("mouseup") # << >>
    /\ dragState' = NoDrag
    /\ windowListeners' = DragListeners(dragState')
    /\ overlays' = handleUpdateOverlay(overlays, dragState.targetId,
                        [x |-> dragState.initialX, y |-> dragState.initialY])
    /\ UNCHANGED << editorCamVars, zoomEvents, appVars, canvasCamVars, videoVars,
                    schedVars, solved, activeOverlayId, cropState,
                    pointer, gestures, created >>
handleMouseUp ==
    /\ ListenersFor("mouseup") # << >>
    /\ dragState' = NoDrag
    /\ windowListeners' = DragListeners(dragState')
    /\ UNCHANGED << editorCamVars, zoomEvents, appVars, canvasCamVars, videoVars,
                    schedVars, solved, overlays, activeOverlayId, cropState,
                    pointer, gestures, created >>

NextCamera ==
    \/ TogglePlay
    \/ PlaybackEffect
    \/ Tick
    \/ LoadedMetadata
    \/ TimeUpdateEvent
    \/ \E time \in SeekTimes : handleSeek(time)
    \/ VideoAdvance
    \/ SetConfig

SpecCamera == Init /\ [][NextCamera]_vars

\* the overlay buttons pressed in turn: a blur first, then a spotlight, ...
AddedTypes == {IF Len(overlays) % 2 = 0 THEN "blur" ELSE "spotlight"}

\* editing sessions on the overlays
NextPointer ==
    \/ \E type \in AddedTypes : handleAddOverlay(type)
    \/ \E id \in 0..Len(overlays) : onSelectOverlay(id)
    \/ MouseDownOverlay
    \/ \E e \in PointerPositions : handleMouseMove(e)
    \/ handleMouseUp
    \/ \E time \in PointerSeekTimes : handleSeek(time)
    \/ TimeUpdateEvent

\* the editor with the metadata loaded and auto zoom switched on
InitPointer ==
    /\ config = [DEFAULT_EDITOR_CONFIG EXCEPT !.autoZoom = TRUE]
    /\ isPlaying = FALSE
    /\ currentTime = 0
    /\ duration = MediaDuration
    /\ trimRange = [start |-> 0, end |-> MediaDuration]
    /\ zoomEvents = CornerEvents
    /\ cameraState = [x |-> Half, y |-> Half, zoom |-> One]
    /\ activeEventType = "null"
    /\ currentCamera = [x |-> Half, y |-> Half, zoom |-> One]
    /\ video = [currentTime |-> 0, paused |-> TRUE, duration |-> MediaDuration]
    /\ metadata = "done"
    /\ timeupdatePending = FALSE
    /\ effectPending = FALSE
    /\ rafQueue = << >>
    /\ frames = 0
    /\ solved = NoCall
    /\ overlays = << >>
    /\ activeOverlayId = 0
    /\ cropState = [active |-> FALSE, x |-> 0, y |-> 0, width |-> One, height |-> One]
    /\ dragState = NoDrag
    /\ windowListeners = << >>
    /\ pointer = [clientX |-> 340, clientY |-> 165]
    /\ gestures = 0
    /\ created = 0
    /\ AppEditing

SpecPointer == InitPointer /\ [][NextPointer]_vars

\* scrubbing the paused editor: seeks and the timeupdate events they raise
InitSeek ==
    /\ config \in {c \in Configs : c.zoom = DEFAULT_EDITOR_CONFIG.zoom}
    /\ isPlaying = FALSE
    /\ currentTime = 0
    /\ duration = MediaDuration
    /\ trimRange = [start |-> 0, end |-> MediaDuration]
    /\ zoomEvents \in PlaybackEventLists
    /\ cameraState = [x |-> Half, y |-> Half, zoom |-> One]
    /\ activeEventType = "null"
    /\ currentCamera = [x |-> Half, y |-> Half, zoom |-> One]
    /\ video = [currentTime |-> 0, paused |-> TRUE, duration |-> MediaDuration]
    /\ metadata = "done"
    /\ timeupdatePending = FALSE
    /\ effectPending = FALSE
    /\ rafQueue = << >>
    /\ frames = 0
    /\ solved = NoCall
    /\ overlays = << >>
    /\ activeOverlayId = 0
    /\ cropState = [active |-> FALSE, x |-> 0, y |-> 0, width |-> One, height |-> One]
    /\ dragState = NoDrag
    /\ windowListeners = << >>
    /\ pointer = [clientX |-> 340, clientY |-> 165]
    /\ gestures = 0
    /\ created = 0
    /\ AppEditing

NextSeek ==
    \/ \E time \in SeekTimes : handleSeek(time)
    \/ TimeUpdateEvent

SpecSeek == InitSeek /\ [][NextSeek]_vars

\* every editing operation on overlays and crop rectangle, the playhead at rest
OverlayIds == {overlays[i].id : i \in 1..Len(overlays)}

NextEdit ==
    \/ \E type \in AddedTypes : handleAddOverlay(type)
    \/ \E id \in {0} \cup OverlayIds : onSelectOverlay(id)
    \/ \E id \in OverlayIds : handleDeleteOverlay(id)
    \/ onToggleCrop
    \/ MouseDownOverlay
    \/ MouseDownCropAt(PointerPositions, MaxGestures)
    \/ \E e \in PointerPositions : handleMouseMove(e)
    \/ handleMouseUp

SpecEdit == InitPointer /\ [][NextEdit]_vars

\* editing sessions on the crop rectangle
NextCrop ==
    \/ onToggleCrop
    \/ MouseDownCrop
    \/ \E e \in CropPositions : handleMouseMove(e)
    \/ handleMouseUp
    \/ \E time \in PointerSeekTimes : handleSeek(time)
    \/ TimeUpdateEvent

SpecCrop == InitPointer /\ [][NextCrop]_vars

\* playback inside a trim range that is edited meanwhile; an overlay may be
\* added (which pauses) and the crop rectangle switched on and off
NextTrim ==
    \/ TogglePlay
    \/ PlaybackEffect
    \/ Tick
    \/ VideoAdvance
    \/ TimeUpdateEvent
    \/ \E drag \in TrimDrags : TrimHandleMove(drag.handle, drag.time)
    \/ Len(overlays) = 0 /\ handleAddOverlay("blur")
    \/ onToggleCrop

SpecTrim == InitPointer /\ [][NextTrim]_vars

\* playback and pointer sessions side by side.  The editor has one overlay
\* (added at time 0, still selected) and the crop rectangle switched on; the
\* pointer is pressed at one place and moved to another.
DownPositions == {[clientX |-> 340, clientY |-> 165]}
MovePositions == {[clientX |-> 68, clientY |-> 33]}

InitStudio ==
    /\ config = [DEFAULT_EDITOR_CONFIG EXCEPT !.autoZoom = TRUE]
    /\ isPlaying = FALSE
    /\ currentTime = 0
    /\ duration = MediaDuration
    /\ trimRange = [start |-> 0, end |-> MediaDuration]
    /\ zoomEvents = CornerEvents
    /\ cameraState = [x |-> Half, y |-> Half, zoom |-> One]
    /\ activeEventType = "null"
    /\ currentCamera = [x |-> Half, y |-> Half, zoom |-> One]
    /\ video = [currentTime |-> 0, paused |-> TRUE, duration |-> MediaDuration]
    /\ metadata = "done"
    /\ timeupdatePending = FALSE
    /\ effectPending = FALSE
    /\ rafQueue = << >>
    /\ frames = 0
    /\ solved = NoCall
    /\ overlays = << [id |-> RandomId(0), type |-> "blur",
                      startTime |-> 0, duration |-> 3000,
                      x |-> 3500, y |-> 3500, width |-> 3000, height |-> 3000] >>
    /\ activeOverlayId = RandomId(0)
    /\ cropState = [active |-> TRUE, x |-> 0, y |-> 0, width |-> One, height |-> One]
    /\ dragState = NoDrag
    /\ windowListeners = << >>
    /\ pointer = [clientX |-> 340, clientY |-> 165]
    /\ gestures = 0
    /\ created = 1
    /\ AppEditing

\* a pointer-down on the overlay's body or bottom-right handle, or on the
\* crop rectangle's body or bottom-right handle
MouseDownStudio ==
    /\ gestures < MaxGestures
    /\ \E e \in DownPositions :
         \/ \E i \in 1..Len(overlays) : OverlayBodyDown(e, i)
         \/ \E i \in 1..Len(overlays) : OverlayHandleDown(e, i, <<"b", "r">>)
         \/ cropState.active /\ handleMouseDown(e, "crop_move", 0, "none")
         \/ cropState.active /\ handleMouseDown(e, "crop_resize", 0, <<"b", "r">>)

NextStudio ==
    \/ TogglePlay
    \/ PlaybackEffect
    \/ Tick
    \/ VideoAdvance
    \/ TimeUpdateEvent
    \/ MouseDownStudio
    \/ \E e \in MovePositions : handleMouseMove(e)
    \/ handleMouseUp

SpecStudio == InitStudio /\ [][NextStudio]_vars

\* the recording being loaded: the video element reports its length, or
\* Infinity, or no number at all, while the editor is already in use
NextDuration ==
    \/ onLoadedMetadata(AllDurations)
    \/ TimeUpdateEvent
    \/ \E time \in PointerSeekTimes : handleSeek(time)
    \/ \E drag \in TrimDrags : TrimHandleMove(drag.handle, drag.time)
    \/ TogglePlay
    \/ PlaybackEffect

SpecDuration == Init /\ [][NextDuration]_vars

\* the trim handles dragged over a recording of any length: a short one
\* (under half a second), a longer one, or one whose length is first
\* reported as Infinity
ShortMedia == MediaDuration \div 4
TrimDurations == {ShortMedia, MediaDuration, Infinity}

NextTrimDrag ==
    \/ onLoadedMetadata(TrimDurations)
    \/ TimeUpdateEvent
    \/ \E h \in TrimHandles : \E x \in TrackOffsets : handleTrimMouseMove(h, x)
    \/ \E time \in PointerSeekTimes : handleSeek(time)

SpecTrimDrag == Init /\ [][NextTrimDrag]_vars

\* seeking from the timeline: the skip buttons and clicks on the track,
\* while the recording loads and the trim handles are dragged
NextTimeline ==
    \/ onLoadedMetadata(TrimDurations)
    \/ TimeUpdateEvent
    \/ SkipBack
    \/ SkipForward
    \/ \E x \in ClickOffsets : TrackClick(x)
    \/ \E h \in TrimHandles : \E x \in TrackOffsets : handleTrimMouseMove(h, x)

SpecTimeline == Init /\ [][NextTimeline]_vars

\* the overlay list edited while the recording plays or rests: overlays are
\* added, selected, deselected, pressed and deleted, the playhead is moved
NextOverlays ==
    \/ TogglePlay
    \/ PlaybackEffect
    \/ \E time \in PointerSeekTimes : handleSeek(time)
    \/ \E type \in AddedTypes : handleAddOverlay(type)
    \/ \E id \in {0} \cup OverlayIds : onSelectOverlay(id)
    \/ \E id \in OverlayIds : handleDeleteOverlay(id)
    \/ MouseDownOverlay
    \/ handleMouseUp

SpecOverlays == InitPointer /\ [][NextOverlays]_vars

\* three editing sessions in a row on the crop rectangle
CropPathGestures == MaxCropGestures + 1
NextCropPath ==
    \/ onToggleCrop
    \/ MouseDownCropAt(PointerPositions, CropPathGestures)
    \/ \E e \in PointerPositions : handleMouseMove(e)
    \/ handleMouseUp

SpecCropPath == InitPointer /\ [][NextCropPath]_vars

(***************************************************************************)
(* Convergence of the integrator: the playhead rests in the hold phase of  *)
(* the corner event (the media is stalled or paused there), so the target  *)
(* pose stays the same from frame to frame.  Frames are not counted; the   *)
(* browser runs a requested frame, a scheduled effect and a queued         *)
(* timeupdate event eventually.                                            *)
(***************************************************************************)
HoldTime == 1050
FreeTick == animate(FALSE)

InitConverge ==
    /\ \E speed \in ZoomSpeeds :
          config = [DEFAULT_EDITOR_CONFIG EXCEPT !.autoZoom = TRUE,
                                                 !.zoomSpeed = speed]
    /\ isPlaying = FALSE
    /\ currentTime = 0
    /\ duration = MediaDuration
    /\ trimRange = [start |-> 0, end |-> MediaDuration]
    /\ zoomEvents = CornerEvents
    /\ cameraState = [x |-> Half, y |-> Half, zoom |-> One]
    /\ activeEventType = "null"
    /\ currentCamera = [x |-> Half, y |-> Half, zoom |-> One]
    /\ video = [currentTime |-> 0, paused |-> TRUE, duration |-> MediaDuration]
    /\ metadata = "done"
    /\ timeupdatePending = FALSE
    /\ effectPending = FALSE
    /\ rafQueue = << >>
    /\ frames = 0
    /\ solved = NoCall
    /\ overlays = << >>
    /\ activeOverlayId = 0
    /\ cropState = [active |-> FALSE, x |-> 0, y |-> 0, width |-> One, height |-> One]
    /\ dragState = NoDrag
    /\ windowListeners = << >>
    /\ pointer = [clientX |-> 340, clientY |-> 165]
    /\ gestures = 0
    /\ created = 0
    /\ AppEditing

NextConverge ==
    \/ TogglePlay
    \/ PlaybackEffect
    \/ FreeTick
    \/ handleSeek(HoldTime)
    \/ TimeUpdateEvent

SpecConverge ==
    /\ InitConverge
    /\ [][NextConverge]_vars
    /\ WF_vars(FreeTick)
    /\ WF_vars(PlaybackEffect)
    /\ WF_vars(TimeUpdateEvent)

(***************************************************************************)
(* The solver as a pure function: every input, one evaluation per step.    *)
(***************************************************************************)
InitSolver == InitWith(Configs, EventLists)

Solve(t) ==
    /\ solved' = Call(t, config, zoomEvents)
    /\ UNCHANGED << editorCamVars, zoomEvents, appVars, canvasCamVars, videoVars,
                    schedVars, editVars >>

NextSolver == \E t \in GridTimes : Solve(t)

SpecSolver == InitSolver /\ [][NextSolver]_vars

\* the solver at the edges of the windows, a zero-length event included
WindowEventLists == {DragEvents, CloseEvents, ZeroDurationEvents}
InitWindows == InitWith(Configs, WindowEventLists)
SpecWindows == InitWindows /\ [][NextSolver]_vars

(***************************************************************************)
(* Properties of the solver (checked under SpecSolver).                    *)
(***************************************************************************)
WasCalled == solved # NoCall
FirstPre(t) == FindPreZoomEvent(zoomEvents, t)
FirstActive(t) == FindActiveEvent(zoomEvents, t)

\* C1: whenever the solver's target zoom is at least 1, the pose it returns
\* has x and y inside [0.5/zoom, 1 - 0.5/zoom], in every phase; the event at
\* (0.05, 0.05) with scale 4 yields x = y = 0.125 in its hold phase.
C1_SolverPoseClamped ==
    (WasCalled /\ solved.zoom >= One) =>
        /\ Div(Half, solved.zoom) <= solved.x
        /\ solved.x <= One - Div(Half, solved.zoom)
        /\ Div(Half, solved.zoom) <= solved.y
        /\ solved.y <= One - Div(Half, solved.zoom)
        /\ ( /\ zoomEvents = CornerEvents /\ config.autoZoom
             /\ solved.time >= 500 + 350 /\ solved.time < 500 + 2000 )
           => (solved.x = 1250 /\ solved.y = 1250)

C1_Witness ==
    /\ zoomEvents = CornerEvents /\ config.autoZoom
    /\ solved.time = 1000 /\ solved.zoom = 40000
    /\ solved.x = 1250 /\ solved.y = 1250

\* C3 as claimed: an event whose active window contains t takes precedence
\* over the anticipation window of another event, so the pose of a time with
\* an active event is that event's pose (it carries the event's type).
C3_ActiveTakesPrecedence ==
    (WasCalled /\ config.autoZoom /\ FirstActive(solved.time) # 0) =>
        solved.eventType = zoomEvents[FirstActive(solved.time)].type

\* C3 as amended: the anticipation window takes precedence.  Whenever some
\* event's anticipation window contains t the pose is the anticipation pose
\* of the first such event (no event type, zoom = static zoom + 0.05 * e),
\* also when another event is active at t; the active event decides only
\* when no anticipation window contains t.
C3_AnticipationTakesPrecedence ==
    (WasCalled /\ config.autoZoom) =>
        LET t == solved.time
            pre == FirstPre(t)
            act == FirstActive(t)
        IN  /\ pre # 0 =>
                  /\ solved.eventType = "null"
                  /\ solved.zoom = config.zoom + Mul(500,
                         easeOutQuad(Div(t - (zoomEvents[pre].startTime - 200), 200)))
            /\ (pre = 0 /\ act # 0) =>
                  solved.eventType = zoomEvents[act].type

C3_Witness ==
    /\ zoomEvents = OverlapEvents /\ config.autoZoom /\ config.zoom = One
    /\ solved.time = 1900
    /\ FirstActive(solved.time) = 1 /\ FirstPre(solved.time) = 2
    /\ solved.eventType = "null" /\ solved.zoom = 10375

(***************************************************************************)
(* Properties of the camera integrator (checked under SpecCamera).         *)
(***************************************************************************)
InsideFrame(pose) ==
    /\ Div(Half, pose.zoom) <= pose.x /\ pose.x <= One - Div(Half, pose.zoom)
    /\ Div(Half, pose.zoom) <= pose.y /\ pose.y <= One - Div(Half, pose.zoom)

AllScalesAtLeastOne == \A i \in 1..Len(zoomEvents) : zoomEvents[i].scale >= One

\* C2: with static zoom >= 1 and every event scale >= 1, in every reachable
\* state the displayed pose (cameraState and currentCamera) has x and y
\* inside [0.5/zoom, 1 - 0.5/zoom].
C2_DisplayedPoseInsideFrame ==
    (config.zoom >= One /\ AllScalesAtLeastOne) =>
        (InsideFrame(cameraState) /\ InsideFrame(currentCamera))

TimeAccepted(t) == NumberIsFinite(t) /\ t <= 1000000 * 1000
SnapTarget == calculateTargetCamera(video'.currentTime, config', zoomEvents')
IsSnappedTo(pose, target) ==
    pose.x = target.x /\ pose.y = target.y /\ pose.zoom = target.zoom

\* C4: the step that pauses playback (the effect of isPlaying = false) and
\* every accepted time update while paused leave the displayed pose equal,
\* in x, y and zoom, to the solver's target for the video's current time.
C4_PausedPoseSnapped ==
    [][ ( \/ PlaybackEffect /\ ~isPlaying
          \/ TimeUpdateEvent /\ ~isPlaying /\ TimeAccepted(video.currentTime) )
        => ( /\ IsSnappedTo(currentCamera', SnapTarget)
             /\ IsSnappedTo(cameraState', SnapTarget) ) ]_vars

C4_Witness ==
    /\ ~isPlaying /\ ~effectPending /\ ~timeupdatePending
    /\ zoomEvents = CornerEvents /\ config.autoZoom
    /\ video.currentTime = 1050
    /\ currentCamera = [x |-> 1250, y |-> 1250, zoom |-> 40000]
    /\ cameraState = currentCamera
    /\ frames > 0

\* C5: each animation-frame tick replaces the pose by lerp(pose, target,
\* factor) separately in x, y and zoom, where target is the solver's pose
\* for the video time the tick reads and factor is 0.03 for speed 'slow',
\* 0.15 for 'fast' and 0.08 otherwise (the speed of the configuration the
\* running animate callback holds); a time update dispatched while playing
\* reports the time and leaves the pose unchanged.
C5_TickLerpsByFactor ==
    [][ /\ Tick =>
             LET c == Head(rafQueue).config
                 target == calculateTargetCamera(video.currentTime, c, zoomEvents)
                 factor == IF c.zoomSpeed = "slow" THEN 300
                           ELSE IF c.zoomSpeed = "fast" THEN 1500 ELSE 800
                 mix(a, b) == (a * (One - factor) + b * factor + Half) \div One
             IN  /\ currentCamera'.x = mix(currentCamera.x, target.x)
                 /\ currentCamera'.y = mix(currentCamera.y, target.y)
                 /\ currentCamera'.zoom = mix(currentCamera.zoom, target.zoom)
                 /\ cameraState' = currentCamera'
        /\ (TimeUpdateEvent /\ isPlaying) =>
             /\ UNCHANGED << currentCamera, cameraState >>
             /\ TimeAccepted(video.currentTime) => currentTime' = video.currentTime
      ]_vars

C5_Witness ==
    /\ isPlaying /\ frames > 0
    /\ rafQueue # << >> /\ Head(rafQueue).config.zoomSpeed = "slow"
    /\ zoomEvents = CornerEvents
    /\ currentCamera.zoom > One /\ currentCamera.zoom < 40000
    /\ currentCamera.x < Half

PausedAndSettled == ~isPlaying /\ ~effectPending

\* C7: at most one animation-frame callback is pending at any time; once
\* isPlaying is false and its effect has run no callback is pending, and no
\* tick runs (so none changes the pose) until play is pressed again.
C7_NoTickWhilePaused ==
    /\ [](Len(rafQueue) <= 1)
    /\ [](PausedAndSettled => rafQueue = << >>)
    /\ [][PausedAndSettled => ~Tick]_vars

C7_Witness ==
    /\ PausedAndSettled /\ frames > 0 /\ rafQueue = << >>
    /\ video.paused

\* C8: a time that is not finite, above 1e6 s or negative never reaches the
\* editor's currentTime (onTimeUpdate is not called with it) and is never
\* passed to the solver, on any path, the animation frame included.
C8_BadTimeNeverUsed ==
    /\ (TimeAccepted(currentTime) /\ currentTime >= 0)
    /\ WasCalled => (TimeAccepted(solved.time) /\ solved.time >= 0)

(***************************************************************************)
(* Convergence after pause and resume (checked under SpecConverge).        *)
(***************************************************************************)
TargetNow == calculateTargetCamera(video.currentTime, config, zoomEvents)

\* one component of a frame: the distance to the target is multiplied by
\* (1 - factor), up to the rounding of the last digit, without changing sign
Contracts(from, to, target, factor) ==
    /\ Abs((to - target) * One - (from - target) * (One - factor)) <= Half
    /\ Abs(to - target) <= Abs(from - target)
    /\ (from >= target) => (to >= target)
    /\ (from <= target) => (to <= target)

\* the smallest distance a frame at the slowest factor (0.03) still reduces
Resolution == Half \div 300

WithinResolution ==
    /\ Abs(currentCamera.x - TargetNow.x) <= Resolution
    /\ Abs(currentCamera.y - TargetNow.y) <= Resolution
    /\ Abs(currentCamera.zoom - TargetNow.zoom) <= Resolution

\* C6: the pause effect leaves the pose exactly on the target; the effect
\* that resumes play leaves the pose as it is (no jump); every frame
\* multiplies each component's distance to the target by (1 - factor),
\* never increasing it and never crossing the target; and with the target
\* unchanged the pose eventually stays within the resolution of the target.
C6_ConvergesAfterResume ==
    /\ [][ (PlaybackEffect /\ ~isPlaying) =>
              IsSnappedTo(currentCamera', SnapTarget) ]_vars
    /\ [][ (PlaybackEffect /\ isPlaying) =>
              UNCHANGED << currentCamera, cameraState >> ]_vars
    /\ [][ FreeTick =>
              LET c == Head(rafQueue).config
                  target == calculateTargetCamera(video.currentTime, c, zoomEvents)
                  factor == IF c.zoomSpeed = "slow" THEN 300
                            ELSE IF c.zoomSpeed = "fast" THEN 1500 ELSE 800
              IN  /\ Contracts(currentCamera.x, currentCamera'.x, target.x, factor)
                  /\ Contracts(currentCamera.y, currentCamera'.y, target.y, factor)
                  /\ Contracts(currentCamera.zoom, currentCamera'.zoom,
                               target.zoom, factor) ]_vars
    /\ <>[]WithinResolution

\* play resumed on the snapped pose of the hold phase, a frame requested
C6_Witness ==
    /\ isPlaying /\ ~effectPending /\ rafQueue # << >>
    /\ ~video.paused
    /\ video.currentTime = HoldTime
    /\ currentCamera = [x |-> 1250, y |-> 1250, zoom |-> 40000]
    /\ config.zoomSpeed = "slow"

(***************************************************************************)
(* Properties of the pointer sessions (checked under SpecPointer).         *)
(***************************************************************************)
InMoveSession ==
    /\ dragState # NoDrag
    /\ dragState.type = "move"
    /\ IndexOf(overlays, dragState.targetId) # 0

\* C9: in a move session at camera zoom > 1 a pointer move of a nonzero
\* screen distance changes the overlay's x by less than the same screen
\* distance does at zoom 1 (the distance over the laid-out container width).
C9_DeltaShrinksWithZoom ==
    [][ \A e \in PointerPositions :
          ( /\ handleMouseMove(e)
            /\ InMoveSession
            /\ cameraState.zoom > One
            /\ e.clientX # dragState.startX )
          => LET i == IndexOf(overlays, dragState.targetId)
             IN  Abs(overlays'[i].x - dragState.initialX)
                   < Abs(Div(e.clientX - dragState.startX, ContainerWidth)) ]_vars

\* C10: in a move session a pointer move sets the target overlay's x and y
\* to the initial position plus the normalized delta, without clamping, and
\* leaves its other fields and every other overlay unchanged.
C10_MoveSetsPositionOnly ==
    [][ \A e \in PointerPositions :
          (handleMouseMove(e) /\ InMoveSession)
          => LET i == IndexOf(overlays, dragState.targetId)
                 d == PointerDelta(e, dragState, cameraState.zoom)
             IN  /\ Len(overlays') = Len(overlays)
                 /\ overlays'[i] = [overlays[i] EXCEPT
                                      !.x = dragState.initialX + d.dx,
                                      !.y = dragState.initialY + d.dy]
                 /\ \A j \in 1..Len(overlays) : j # i => overlays'[j] = overlays[j]
                 /\ UNCHANGED cropState ]_vars

\* an overlay dragged past the left and top edges, the other one untouched
C10_Witness ==
    /\ InMoveSession
    /\ Len(overlays) = 2
    /\ \E i, j \in 1..2 :
          /\ i # j
          /\ overlays[i].id = dragState.targetId
          /\ overlays[i].x = 3500 - 4000 /\ overlays[i].y = 3500 - 4000
          /\ overlays[i].width = 3000 /\ overlays[i].height = 3000
          /\ overlays[j].x = 3500 /\ overlays[j].y = 3500

InResizeSession ==
    /\ dragState # NoDrag
    /\ dragState.type = "resize"
    /\ IndexOf(overlays, dragState.targetId) # 0

HasLetter(letter) ==
    \E k \in 1..Len(dragState.handle) : dragState.handle[k] = letter

\* C11: in a resize session every pointer move sets the target overlay, from
\* the session's snapshot, to x + dx and width - dx for a handle with 'l',
\* width + dx for 'r', y + dy and height - dy for 't', height + dy for 'b',
\* with width and height raised to 0.05 when they come out smaller.
C11_ResizeAdjustsEdges ==
    [][ \A e \in PointerPositions :
          (handleMouseMove(e) /\ InResizeSession)
          => LET i == IndexOf(overlays, dragState.targetId)
                 dx == Div(e.clientX - dragState.startX, ContainerWidth)
                 dy == Div(e.clientY - dragState.startY, ContainerHeight)
                 newX == dragState.initialX + (IF HasLetter("l") THEN dx ELSE 0)
                 newY == dragState.initialY + (IF HasLetter("t") THEN dy ELSE 0)
                 newW == dragState.initialW
                           + (IF HasLetter("r") THEN dx ELSE 0)
                           - (IF HasLetter("l") THEN dx ELSE 0)
                 newH == dragState.initialH
                           + (IF HasLetter("b") THEN dy ELSE 0)
                           - (IF HasLetter("t") THEN dy ELSE 0)
             IN  /\ overlays'[i] = [overlays[i] EXCEPT
                        !.x = newX, !.y = newY,
                        !.width = IF newW < 500 THEN 500 ELSE newW,
                        !.height = IF newH < 500 THEN 500 ELSE newH]
                 /\ overlays'[i].width >= 500 /\ overlays'[i].height >= 500
                 /\ \A j \in 1..Len(overlays) : j # i => overlays'[j] = overlays[j] ]_vars

\* width 0.3 resized by dx = -0.4 and height 0.3 by dy = -0.4 on the
\* bottom-right handle: both floored at 0.05, the corner x, y kept
C11_Witness ==
    /\ InResizeSession
    /\ dragState.handle = <<"b", "r">>
    /\ dragState.initialW = 3000 /\ dragState.initialH = 3000
    /\ pointer.clientX - dragState.startX = 0 - 272
    /\ LET i == IndexOf(overlays, dragState.targetId)
       IN  /\ overlays[i].width = 500 /\ overlays[i].height = 500
           /\ overlays[i].x = 3500 /\ overlays[i].y = 3500

(***************************************************************************)
(* Properties of the crop sessions (checked under SpecCrop).               *)
(***************************************************************************)
InCropSession(type) == dragState # NoDrag /\ dragState.type = type

\* C12: after every pointer move of a resize-crop session the crop
\* rectangle has width >= 0.05 and height >= 0.05.
C12_CropResizeFloored ==
    [][ \A e \in CropPositions :
          (handleMouseMove(e) /\ InCropSession("crop_resize"))
          => (cropState'.width >= 500 /\ cropState'.height >= 500) ]_vars

\* the move of a crop session alone: the origin is the snapshot plus the
\* delta, clamped into [0, 1 - width] and [0, 1 - height]
CropMoveClampsOrigin ==
    [][ \A e \in CropPositions :
          (handleMouseMove(e) /\ InCropSession("crop_move"))
          => LET dx == Div(e.clientX - dragState.startX, ContainerWidth)
                 dy == Div(e.clientY - dragState.startY, ContainerHeight)
             IN  cropState' = [cropState EXCEPT
                     !.x = Max(0, Min(One - cropState.width, dragState.initialX + dx)),
                     !.y = Max(0, Min(One - cropState.height, dragState.initialY + dy))]
      ]_vars

\* C13: every pointer move of a move-crop session clamps the origin into
\* [0, 1 - width] x [0, 1 - height], leaves width, height and active as they
\* are, and leaves the crop rectangle inside [0,1] x [0,1].
C13_CropMoveStaysInFrame ==
    [][ \A e \in CropPositions :
          (handleMouseMove(e) /\ InCropSession("crop_move"))
          => /\ cropState'.width = cropState.width
             /\ cropState'.height = cropState.height
             /\ cropState'.active = cropState.active
             /\ 0 <= cropState'.x /\ cropState'.x + cropState'.width <= One
             /\ 0 <= cropState'.y /\ cropState'.y + cropState'.height <= One ]_vars

(***************************************************************************)
(* Properties of the edit session as a whole (checked under SpecEdit).     *)
(***************************************************************************)
SessionModes == {"move", "resize", "crop_move", "crop_resize"}
IsPointerDown == gestures' = gestures + 1
IsPointerUp == dragState # NoDrag /\ dragState' = NoDrag
Geometry(item) ==
    [x |-> item.x, y |-> item.y, width |-> item.width, height |-> item.height]
Snapshot(drag) ==
    [x |-> drag.initialX, y |-> drag.initialY,
     width |-> drag.initialW, height |-> drag.initialH]

\* C14: there is one session record; a pointer-down makes it a session with
\* one of the four modes, the target id, the handle, the pointer position as
\* origin and the target's x, y, width, height of that instant; a pointer-up
\* makes it idle and changes no overlay and no crop geometry; the record
\* changes on pointer-down and pointer-up only.
C14_SessionLifecycle ==
    /\ [][ IsPointerDown =>
            /\ dragState' # NoDrag
            /\ dragState'.type \in SessionModes
            /\ dragState'.startX = pointer'.clientX
            /\ dragState'.startY = pointer'.clientY
            /\ IF dragState'.type \in {"crop_move", "crop_resize"}
               THEN Snapshot(dragState') = Geometry(cropState)
               ELSE /\ dragState'.targetId \in OverlayIds
                    /\ Snapshot(dragState') =
                         Geometry(overlays[IndexOf(overlays, dragState'.targetId)])
            /\ (dragState'.type \in {"resize", "crop_resize"})
                 <=> (dragState'.handle # "none")
            /\ overlays' = overlays /\ cropState' = cropState ]_vars
    /\ [][ IsPointerUp => (overlays' = overlays /\ cropState' = cropState) ]_vars
    /\ [][ (dragState' # dragState) => (IsPointerDown \/ IsPointerUp) ]_vars

\* released after a move that was written: the overlay stays where the last
\* move put it
C14_Witness ==
    /\ dragState = NoDrag
    /\ gestures > 0
    /\ \E i \in 1..Len(overlays) :
          overlays[i].x = 3500 + 4000 /\ overlays[i].y = 3500 + 4000

SessionTargetMissing ==
    /\ dragState # NoDrag
    /\ dragState.type \in {"move", "resize"}
    /\ dragState.targetId \notin OverlayIds

\* C15: a pointer move of a session whose target overlay no longer exists
\* ends the session (the record becomes idle) and changes no overlay and no
\* crop state.
C15_MissingTargetAborts ==
    [][ \A e \in PointerPositions :
          (handleMouseMove(e) /\ SessionTargetMissing)
          => /\ dragState' = NoDrag
             /\ overlays' = overlays
             /\ cropState' = cropState ]_vars

\* the part of it that the code has: such a move changes no geometry
MissingTargetMoveWritesNothing ==
    [][ \A e \in PointerPositions :
          (handleMouseMove(e) /\ SessionTargetMissing)
          => (overlays' = overlays /\ cropState' = cropState) ]_vars

ActiveOverlays == {i \in 1..Len(overlays) : overlays[i].id = activeOverlayId}

\* C17: at most one overlay is the active one; adding an overlay makes the
\* new overlay the active one, a pointer-down on an overlay makes that
\* overlay the active one, a click selecting an overlay makes it the active
\* one and a click on the empty canvas leaves none active.
C17_SelectionExclusive ==
    /\ [](Cardinality(ActiveOverlays) <= 1)
    /\ [][ (created' = created + 1) =>
            /\ Len(overlays') = Len(overlays) + 1
            /\ overlays'[Len(overlays')].id \notin OverlayIds
            /\ activeOverlayId' = overlays'[Len(overlays')].id ]_vars
    /\ [][ (IsPointerDown /\ dragState'.type \in {"move", "resize"}) =>
            activeOverlayId' = dragState'.targetId ]_vars
    /\ [][ \A id \in {0} \cup OverlayIds :
            onSelectOverlay(id) =>
              (activeOverlayId' = id /\ (id = 0 => ActiveOverlays' = {})) ]_vars

\* the second overlay was added (and selected), then a pointer-down on the
\* first one made the first the only active one
C17_Witness ==
    /\ Len(overlays) = 2
    /\ dragState # NoDrag /\ dragState.type = "move"
    /\ dragState.targetId = overlays[1].id
    /\ activeOverlayId = overlays[1].id
    /\ ActiveOverlays = {1}

\* C18: every overlay of the editor state has width >= 0.05 and
\* height >= 0.05.
C18_OverlaySizeFloor ==
    \A i \in 1..Len(overlays) :
        overlays[i].width >= 500 /\ overlays[i].height >= 500

\* one overlay deleted, the remaining one resized down to the floor
C18_Witness ==
    /\ created = 2 /\ Len(overlays) = 1
    /\ gestures > 0
    /\ overlays[1].width = 500 /\ overlays[1].height = 500

(***************************************************************************)
(* Visibility of the overlays (checked under SpecPointer).                 *)
(***************************************************************************)
InWindow(item) ==
    /\ video.currentTime >= item.startTime
    /\ video.currentTime < item.startTime + item.duration
IsSelected(item) == activeOverlayId = item.id
BodySurfaceAvailable(i) == ENABLED (\E e \in PointerPositions : OverlayBodyDown(e, i))

\* C16: the move surface of an overlay takes a pointer-down exactly when the
\* video time is inside [startTime, startTime + duration) or the overlay is
\* the selected one, and a move session only ever starts on such an overlay.
C16_RenderedIffInWindowOrSelected ==
    /\ [](\A i \in 1..Len(overlays) :
            BodySurfaceAvailable(i) <=> (InWindow(overlays[i]) \/ IsSelected(overlays[i])))
    /\ [][ (IsPointerDown /\ dragState'.type = "move") =>
            LET item == overlays[IndexOf(overlays, dragState'.targetId)]
            IN  InWindow(item) \/ IsSelected(item) ]_vars

\* at video time 0 two overlays of the window [1.05, 4.05): the first is
\* not selected (hidden), the second is selected and is being moved
C16_Witness ==
    /\ Len(overlays) = 2
    /\ video.currentTime = 0
    /\ overlays[1].startTime = 1050 /\ overlays[2].startTime = 1050
    /\ activeOverlayId = overlays[2].id
    /\ ~BodySurfaceAvailable(1)
    /\ dragState # NoDrag /\ dragState.type = "move"
    /\ dragState.targetId = overlays[2].id
    /\ overlays[2].x # 3500

(***************************************************************************)
(* Seeks while paused (checked under SpecSeek).                            *)
(***************************************************************************)
SeekSettled == WasCalled /\ ~timeupdatePending

\* C19: a seek overwrites the playhead with its own (clamped) time whatever
\* the state before it, and once the timeupdate events are delivered the
\* playhead and the displayed pose are those of the video's time alone, so
\* seeking to a and then to b, or twice to b, ends as one seek to b does.
C19_SeekOverwrites ==
    /\ [][ \A b \in SeekTimes :
            handleSeek(b) =>
              /\ video'.currentTime = Max(0, Min(b, duration))
              /\ currentTime' = Max(0, Min(b, duration))
              /\ UNCHANGED << cameraState, currentCamera >> ]_vars
    /\ [](SeekSettled =>
            /\ currentTime = video.currentTime
            /\ IsSnappedTo(cameraState, TargetNow)
            /\ IsSnappedTo(currentCamera, TargetNow)
            /\ activeEventType = TargetNow.eventType
            /\ solved.time = video.currentTime)

\* a seek to 0.35 s was carried out (pose of the anticipation phase), a
\* seek to 0.7 s has just overwritten the playhead
C19_Witness ==
    /\ zoomEvents = CornerEvents /\ config.autoZoom
    /\ timeupdatePending
    /\ solved.time = 350 /\ cameraState.zoom = 10219
    /\ video.currentTime = 700 /\ currentTime = 700

(***************************************************************************)
(* The anticipation phase of the solver (checked under SpecSolver).        *)
(***************************************************************************)
AnticipatedBy(call) ==
    IF call # NoCall /\ config.autoZoom THEN FirstPre(call.time) ELSE 0

\* C20: for a time t in the anticipation window of an event, with
\* u = (t - (startTime - 0.2)) / 0.2 and e = 1 - (1 - u)^2, the solver
\* returns zoom = staticZoom + 0.05 e and x = 0.5 + (event.x - 0.5) 0.1 e,
\* y likewise, clamped into [0.5/zoom, 1 - 0.5/zoom]; for u > 0 the zoom is
\* in (staticZoom, staticZoom + 0.05], and of two times in the window of one
\* event the later one has the larger zoom.
C20_AnticipationRamp ==
    /\ [](AnticipatedBy(solved) # 0 =>
            LET event == zoomEvents[AnticipatedBy(solved)]
                u == Div(solved.time - (event.startTime - 200), 200)
                e == One - Mul(One - u, One - u)
                zoom == config.zoom + Mul(500, e)
                x == Half + Mul(Mul(event.x - Half, 1000), e)
                y == Half + Mul(Mul(event.y - Half, 1000), e)
                half == Div(Half, zoom)
            IN  /\ solved.zoom = zoom
                /\ solved.x = Max(half, Min(One - half, x))
                /\ solved.y = Max(half, Min(One - half, y))
                /\ solved.eventType = "null"
                /\ u > 0 => (config.zoom < solved.zoom /\ solved.zoom <= config.zoom + 500))
    /\ [][ ( /\ AnticipatedBy(solved) # 0
             /\ AnticipatedBy(solved') = AnticipatedBy(solved)
             /\ solved.time < solved'.time )
           => solved.zoom < solved'.zoom ]_vars

\* t = 0.4 before the event starting at 0.5: u = 0.5, e = 0.75, the pose
\* not touched by the clamp
C20_Witness ==
    /\ zoomEvents = UnitScaleEvents /\ config.autoZoom /\ config.zoom = One
    /\ solved.time = 400
    /\ solved.zoom = 10375 /\ solved.x = 5000 /\ solved.y = 4925

(***************************************************************************)
(* The active phases of the solver (checked under SpecSolver).             *)
(***************************************************************************)
\* the event the solver treats as active in a call: no anticipation window
\* contains the time and the event is the first whose active window does
ActiveBy(call) ==
    IF call # NoCall /\ config.autoZoom /\ FirstPre(call.time) = 0
    THEN FirstActive(call.time) ELSE 0

\* 1 + 2.70158 (u - 1)^3 + 1.70158 (u - 1)^2
OvershootOf(u) ==
    LET d  == u - One
        d2 == (d * d + Half) \div One
        d3 == (d2 * d + Half) \div One
    IN  One + ((d3 * 170158 + 50000) \div 100000 + d3)
            + ((d2 * 170158 + 50000) \div 100000)

\* 1 - (1 - u)^2
QuadOf(u) == One - ((One - u) * (One - u) + Half) \div One

\* a + (b - a) p
Between(a, b, p) == (a * (One - p) + b * p + Half) \div One

HasDragEnd(event) ==
    event.type = "drag" /\ event.xEnd # Undefined /\ event.yEnd # Undefined

\* the effective target of an event, timeInEvent after its start
TargetOf(event, timeInEvent) ==
    LET p == Max(0, Min(One, Div(timeInEvent, event.duration)))
    IN  IF HasDragEnd(event)
        THEN [x |-> Between(event.x, event.xEnd, p), y |-> Between(event.y, event.yEnd, p)]
        ELSE [x |-> event.x, y |-> event.y]

Into(v, zoom) == Max(Div(Half, zoom), Min(One - Div(Half, zoom), v))

\* C21: for the event the solver takes as active, with timeInEvent =
\* t - startTime: while timeInEvent < 0.35 the zoom is (staticZoom + 0.05) +
\* (scale - (staticZoom + 0.05)) easeOutBack(timeInEvent / 0.35) and the
\* position is 0.5 + (effective target - 0.5) easeOutQuad(timeInEvent / 0.35);
\* at timeInEvent = 0 the zoom is staticZoom + 0.05 and the position is the
\* centre; from 0.35 on the zoom is the event's scale and the position is
\* the effective target; the position is then clamped.
C21_ActivePhases ==
    ActiveBy(solved) # 0 =>
        LET event == zoomEvents[ActiveBy(solved)]
            timeInEvent == solved.time - event.startTime
            u == Div(timeInEvent, 350)
            startZoom == config.zoom + 500
            target == TargetOf(event, timeInEvent)
            zoom == IF timeInEvent < 350
                    THEN startZoom + Mul(event.scale - startZoom, OvershootOf(u))
                    ELSE event.scale
            x == IF timeInEvent < 350
                 THEN Half + Mul(target.x - Half, QuadOf(u)) ELSE target.x
            y == IF timeInEvent < 350
                 THEN Half + Mul(target.y - Half, QuadOf(u)) ELSE target.y
        IN  /\ solved.zoom = zoom
            /\ solved.x = Into(x, zoom)
            /\ solved.y = Into(y, zoom)
            /\ solved.eventType = event.type
            /\ timeInEvent = 0 =>
                  (solved.zoom = startZoom /\ solved.x = Half /\ solved.y = Half)
            /\ timeInEvent >= 350 =>
                  ( /\ solved.zoom = event.scale
                    /\ solved.x = Into(target.x, event.scale)
                    /\ solved.y = Into(target.y, event.scale) )

\* the click event of the editor's list 0.2 s after its start: the zoom is
\* past the event's scale 1.6 (overshoot), the position held by the clamp
C21_Witness ==
    /\ zoomEvents = ClickEvents /\ config.autoZoom /\ config.zoom = One
    /\ solved.time = 2200
    /\ solved.zoom > 16000
    /\ solved.x = Div(Half, solved.zoom) /\ solved.x < 3125

\* C22: for an active event of type 'drag' with xEnd and yEnd the effective
\* target is lerp(x, xEnd, clamp(timeInEvent / duration, 0, 1)), y likewise,
\* in the transition-in and in the hold phase (x = 0.2, xEnd = 0.8,
\* duration 4, timeInEvent 2 give 0.5); for any other type, or with xEnd or
\* yEnd missing, the effective target is the fixed (x, y).
C22_DragTargetMovesLinearly ==
    ActiveBy(solved) # 0 =>
        LET event == zoomEvents[ActiveBy(solved)]
            timeInEvent == solved.time - event.startTime
            p == Max(0, Min(One, Div(timeInEvent, event.duration)))
            moving == /\ event.type = "drag"
                      /\ event.xEnd # Undefined /\ event.yEnd # Undefined
            tx == IF moving THEN event.x + Mul(event.xEnd - event.x, p) ELSE event.x
            ty == IF moving THEN event.y + Mul(event.yEnd - event.y, p) ELSE event.y
            q == IF timeInEvent < 350 THEN QuadOf(Div(timeInEvent, 350)) ELSE One
        IN  /\ solved.x = Into(Half + Mul(tx - Half, q), solved.zoom)
            /\ solved.y = Into(Half + Mul(ty - Half, q), solved.zoom)
            /\ (zoomEvents = DragEvents /\ timeInEvent = 2000) =>
                  (tx = Half /\ solved.x = Half)

\* the drag event half way: the target has moved from 0.2 to 0.5
C22_Witness ==
    /\ zoomEvents = DragEvents /\ config.autoZoom
    /\ solved.time = 3000
    /\ solved.x = Half /\ solved.zoom = 15000

\* some event's anticipation or active window contains t
InSomeWindow(t) ==
    \E i \in 1..Len(zoomEvents) :
        /\ t >= zoomEvents[i].startTime - 200
        /\ t < zoomEvents[i].startTime + zoomEvents[i].duration

IsCentredAt(call, zoom) ==
    call.x = Half /\ call.y = Half /\ call.zoom = zoom /\ call.eventType = "null"

\* C23 as claimed: when no event's anticipation or active window contains t
\* the target is x = 0.5, y = 0.5, zoom = staticZoom; when autoZoom is
\* disabled the events are ignored for every t and the target zoom is 1.
C23_DisabledZoomIsOne ==
    WasCalled =>
        /\ (config.autoZoom /\ ~InSomeWindow(solved.time)) =>
               IsCentredAt(solved, config.zoom)
        /\ ~config.autoZoom => IsCentredAt(solved, One)

\* C23 as amended: when no event's anticipation or active window contains t,
\* and for every t when autoZoom is disabled (the events are ignored), the
\* target is x = 0.5, y = 0.5, zoom = staticZoom, without an event type.
C23_IdleTargetIsStaticZoom ==
    (WasCalled /\ (~config.autoZoom \/ ~InSomeWindow(solved.time))) =>
        IsCentredAt(solved, config.zoom)

\* autoZoom off, static zoom 1.2, a time inside the click event's hold phase
C23_Witness ==
    /\ zoomEvents = ClickEvents /\ ~config.autoZoom /\ config.zoom = 12000
    /\ solved.time = 3000
    /\ solved.zoom = 12000 /\ solved.x = Half

\* C24: for static zoom >= 1 and every event scale >= 1 the target zoom the
\* solver returns is >= 1 at every time, the transition-in phase with the
\* overshoot easing included.
C24_TargetZoomAtLeastOne ==
    (WasCalled /\ config.zoom >= One /\ AllScalesAtLeastOne) => solved.zoom >= One

\* C30: when the active windows of two events both contain t the solver
\* uses the one that comes first in the list (not the one that started
\* last), and of several events whose anticipation windows contain t again
\* the first in the list.
C30_FirstInListOrder ==
    (WasCalled /\ config.autoZoom) =>
        LET t == solved.time
            pres == {i \in 1..Len(zoomEvents) :
                        t >= zoomEvents[i].startTime - 200 /\ t < zoomEvents[i].startTime}
            acts == {i \in 1..Len(zoomEvents) :
                        /\ t >= zoomEvents[i].startTime
                        /\ t < zoomEvents[i].startTime + zoomEvents[i].duration}
        IN  /\ pres # {} =>
                \E i \in pres :
                    /\ \A j \in pres : i <= j
                    /\ LET e == QuadOf(Div(t - (zoomEvents[i].startTime - 200), 200))
                       IN  /\ solved.zoom = config.zoom + Mul(500, e)
                           /\ solved.x = Into(Half + Mul(Mul(zoomEvents[i].x - Half, 1000), e),
                                              solved.zoom)
                           /\ solved.y = Into(Half + Mul(Mul(zoomEvents[i].y - Half, 1000), e),
                                              solved.zoom)
            /\ (pres = {} /\ acts # {}) =>
                \E i \in acts :
                    /\ \A j \in acts : i <= j
                    /\ solved.eventType = zoomEvents[i].type
                    /\ t - zoomEvents[i].startTime >= 350 =>
                          solved.zoom = zoomEvents[i].scale

\* both events of the close pair are active at t = 1.5; the pose is the hold
\* pose of the click event, first in the list, not of the focus event that
\* started last
C30_Witness ==
    /\ zoomEvents = CloseEvents /\ config.autoZoom
    /\ solved.time = 1500
    /\ solved.eventType = "click" /\ solved.zoom = 20000

IsPointerMove == \E e \in MovePositions : handleMouseMove(e)
IsCameraStep == Tick \/ PlaybackEffect \/ TimeUpdateEvent

\* C26: the pointer-session handlers (pointer-down, move, up) never modify
\* the camera pose, and the frame tick, the playback effect with its pause
\* snap and the time-update handler never modify overlay geometry, crop
\* geometry or the session, in every interleaving of the two.
C26_DisjointWrites ==
    /\ [][ (IsPointerDown \/ IsPointerMove \/ handleMouseUp)
             => UNCHANGED << cameraState, currentCamera, activeEventType >> ]_vars
    /\ [][ IsCameraStep => UNCHANGED << overlays, cropState, dragState >> ]_vars

\* a resize session on the overlay is open and has changed its size while
\* the camera, playing, is on its way to the event's pose
C26_Witness ==
    /\ isPlaying /\ frames > 0 /\ rafQueue # << >>
    /\ currentCamera.zoom > One /\ currentCamera.zoom < 40000
    /\ dragState.type = "resize"
    /\ overlays[1].width = 500

(***************************************************************************)
(* The duration of the recording (checked under SpecDuration).             *)
(***************************************************************************)
IsTrimDrag == \E drag \in TrimDrags : TrimHandleMove(drag.handle, drag.time)
MetadataReported == metadata = "loading" /\ metadata' # "loading"
FixDurationRuns == metadata = "fixing" /\ metadata' = "done"

\* C27: an unresolved duration is never published.  The published duration
\* is 0 or a finite duration reported by the video; a reported Infinity
\* starts the workaround (seek to 1e101, then, on the next time update, to
\* 0) and a reported NaN is ignored; the trim range is set to {0, duration}
\* when the duration is published while trimRange.end is 0 and otherwise
\* changes by the trim handles only; the progress percentages are 0 while
\* the duration is not > 0.
C27_UnresolvedDurationNotPublished ==
    /\ [](duration # Infinity /\ duration # NaN /\ duration >= 0)
    /\ [][ duration' # duration =>
             /\ duration' = video'.duration
             /\ video'.duration # Infinity /\ video'.duration # NaN
             /\ trimRange' = IF trimRange.end = 0
                             THEN [start |-> 0, end |-> duration']
                             ELSE trimRange ]_vars
    /\ [][ (MetadataReported /\ video'.duration = Infinity) =>
             /\ video'.currentTime = Huge /\ metadata' = "fixing"
             /\ UNCHANGED << duration, trimRange >> ]_vars
    /\ [][ (MetadataReported /\ video'.duration = NaN) =>
             UNCHANGED << duration, trimRange >> ]_vars
    /\ [][ FixDurationRuns => video'.currentTime = 0 ]_vars
    /\ [][ trimRange' # trimRange => (IsTrimDrag \/ duration' # duration) ]_vars
    /\ [](~(duration > 0) => (progress = 0 /\ trimStartPct = 0))

\* the video reported Infinity: the workaround has sought to 1e101, nothing
\* is published yet
C27_Witness ==
    /\ metadata = "fixing" /\ video.duration = Infinity
    /\ video.currentTime = Huge
    /\ duration = 0 /\ trimRange.end = 0 /\ progress = 0

(***************************************************************************)
(* Changes made while playing (checked under SpecCamera and SpecTrim).     *)
(***************************************************************************)
\* C28: during playback every tick uses the configuration in effect at that
\* tick: its target is the solver's pose for the current configuration and
\* its factor that of the current zoom speed.
C28_TickUsesCurrentConfig ==
    [][ Tick =>
          LET target == calculateTargetCamera(video.currentTime, config, zoomEvents)
              factor == getLerpFactor(config)
          IN  /\ currentCamera'.x = lerp(currentCamera.x, target.x, factor)
              /\ currentCamera'.y = lerp(currentCamera.y, target.y, factor)
              /\ currentCamera'.zoom = lerp(currentCamera.zoom, target.zoom, factor)
      ]_vars

\* the playhead the play effect leaves: the start of the trim range when the
\* playhead is outside [start, end)
PlayStartsInsideTrim ==
    [][ (PlaybackEffect /\ isPlaying) =>
          video'.currentTime =
              IF video.currentTime >= trimRange.end \/ video.currentTime < trimRange.start
              THEN trimRange.start ELSE video.currentTime ]_vars

\* a tick loops on the trim range its callback captured when play started
TickLoopsOnCapturedTrim ==
    [][ Tick =>
          LET captured == Head(rafQueue).trimRange
          IN  (captured.end > 0 /\ video.currentTime >= captured.end)
                  => video'.currentTime = captured.start ]_vars

\* C29: playback is confined to the trim range: when play starts with the
\* playhead at or after trimRange.end or before trimRange.start the playhead
\* is set to trimRange.start, and a tick that observes a playhead at or
\* after trimRange.end (with trimRange.end > 0) sets it to trimRange.start;
\* the trim range never changes a result of the solver.
C29_PlaybackConfinedToTrim ==
    /\ PlayStartsInsideTrim
    /\ [][ Tick =>
             ((trimRange.end > 0 /\ video.currentTime >= trimRange.end)
                 => video'.currentTime = trimRange.start) ]_vars
    /\ [][ IsTrimDrag => UNCHANGED solved ]_vars

(***************************************************************************)
(* The trim handles (checked under SpecTrimDrag).                          *)
(***************************************************************************)
TrimOrdered ==
    /\ 0 <= trimRange.start
    /\ trimRange.start <= trimRange.end - 500
    /\ trimRange.end <= duration

\* a drag changes the bound of its own handle only, and nothing while the
\* duration is 0
TrimDragMovesOneBound ==
    [][ (trimRange' # trimRange /\ duration' = duration) =>
          /\ duration # 0
          /\ (trimRange'.start = trimRange.start \/ trimRange'.end = trimRange.end)
      ]_vars

\* for a recording of at least half a second the bounds keep their order
TrimOrderedForLongMedia == [](duration >= 500 => TrimOrdered)

\* C31: once the trim range has been initialised from a finite duration
\* d > 0, trim-handle drags keep 0 <= start <= end - 0.5 and
\* start + 0.5 <= end <= d; a drag leaves the other bound unchanged and no
\* drag has an effect while the duration is 0.
C31_TrimRangeOrdered ==
    /\ [](duration > 0 => TrimOrdered)
    /\ TrimDragMovesOneBound

(***************************************************************************)
(* Seeking from the timeline (checked under SpecTimeline).                 *)
(***************************************************************************)
\* the times the timeline can hand to onSeek in the current state
SeekRequests ==
    {Max(trimRange.start, currentTime - 5000), Min(trimRange.end, currentTime + 5000)}
      \cup {TimesDuration(x) : x \in ClickOffsets}
IsFiniteTime(time) == time > NaN /\ time < Infinity
ClampedTo(time, upper) ==
    IF time < 0 THEN 0 ELSE IF time > upper THEN upper ELSE time

\* C32: handleSeek ignores a non-finite time and otherwise sets the video
\* playhead and the editor's currentTime to max(0, min(time, duration)), so
\* currentTime after a seek is in [0, duration].
C32_SeekClamped ==
    [][ \A time \in SeekRequests :
          handleSeek(time) =>
            /\ IsFiniteTime(time)
            /\ video'.currentTime = ClampedTo(time, duration)
            /\ currentTime' = ClampedTo(time, duration)
            /\ 0 <= currentTime' /\ currentTime' <= duration
            /\ duration' = duration
      ]_vars

\* a click right of the middle of the track of a loaded recording has moved
\* the playhead and the editor's time there
C32_Witness ==
    /\ duration = MediaDuration
    /\ currentTime = Mul(7500, MediaDuration)
    /\ video.currentTime = currentTime
    /\ timeupdatePending

(***************************************************************************)
(* The window listeners of a session (checked under SpecEdit).             *)
(***************************************************************************)
IsFreePointerMove ==
    /\ dragState = NoDrag
    /\ pointer' # pointer
    /\ gestures' = gestures

\* C33: mousemove and mouseup handling is attached to window only while a
\* session is active, and every attached handler belongs to the current
\* session; a pointer move after pointer-up and before the next pointer-down
\* changes no overlay, no crop state, no selection and not the session
\* record.
C33_ListenersScoped ==
    /\ []((dragState = NoDrag) <=> (windowListeners = << >>))
    /\ [](\A k \in 1..Len(windowListeners) :
             windowListeners[k].dragState = dragState)
    /\ [][ IsFreePointerMove =>
             UNCHANGED << overlays, cropState, activeOverlayId, dragState,
                          windowListeners >> ]_vars

\* an overlay was dragged from (68, 33) to (340, 165) and released; the
\* pointer has since gone back to (68, 33) and the overlay stayed
C33_Witness ==
    /\ dragState = NoDrag
    /\ windowListeners = << >>
    /\ gestures > 0
    /\ pointer = [clientX |-> 68, clientY |-> 33]
    /\ \E i \in 1..Len(overlays) :
          overlays[i].x = 3500 + 4000 /\ overlays[i].y = 3500 + 4000

(***************************************************************************)
(* The selection and the overlay list (checked under SpecOverlays).        *)
(***************************************************************************)
IsAddOverlay == created' = created + 1
IsDeleteOverlay == Len(overlays') < Len(overlays)

\* C34: activeOverlayId is null or the id of an overlay that exists.  Adding
\* an overlay pauses playback, appends an overlay with startTime =
\* currentTime, duration 3, x = y = 0.35, width = height = 0.3 and selects
\* it; deleting the selected overlay clears the selection, deleting another
\* one leaves the selection unchanged.
C34_SelectionExists ==
    /\ [](activeOverlayId = 0 \/ activeOverlayId \in OverlayIds)
    /\ [][ IsAddOverlay =>
             /\ isPlaying' = FALSE
             /\ Len(overlays') = Len(overlays) + 1
             /\ SubSeq(overlays', 1, Len(overlays)) = overlays
             /\ LET o == overlays'[Len(overlays')]
                IN  /\ o.startTime = currentTime /\ o.duration = 3000
                    /\ o.x = 3500 /\ o.y = 3500
                    /\ o.width = 3000 /\ o.height = 3000
                    /\ activeOverlayId' = o.id
       ]_vars
    /\ [][ IsDeleteOverlay =>
             activeOverlayId' = IF activeOverlayId \in OverlayIds'
                                THEN activeOverlayId ELSE 0
       ]_vars

\* two overlays were added, one of them with the playhead at 1.05 s; the
\* selected one was deleted and nothing is selected
C34_Witness ==
    /\ created = 2 /\ Len(overlays) = 1
    /\ activeOverlayId = 0
    /\ ~isPlaying
    /\ \E i \in 1..Len(overlays) : overlays[i].startTime = 1050

(***************************************************************************)
(* Moving the pointer back to where the session began (checked under       *)
(* SpecCropPath for the crop rectangle, SpecPointer for overlays).         *)
(***************************************************************************)
IsMoveToOrigin ==
    /\ dragState # NoDrag
    /\ dragState' = dragState
    /\ gestures' = gestures
    /\ pointer' # pointer
    /\ pointer' = [clientX |-> dragState.startX, clientY |-> dragState.startY]

\* an overlay session whose target exists: back at the origin the overlay
\* has the geometry of the snapshot
OverlayRestoredAtOrigin ==
    [][ (IsMoveToOrigin /\ dragState.type \in {"move", "resize"}
           /\ dragState.targetId \in OverlayIds) =>
          Geometry(overlays'[IndexOf(overlays', dragState.targetId)])
             = Snapshot(dragState) ]_vars

CropResizeRestoredAtOrigin ==
    [][ (IsMoveToOrigin /\ dragState.type = "crop_resize") =>
          Geometry(cropState') = Snapshot(dragState) ]_vars

\* C35: in every session mode a move that brings the pointer back to the
\* session's origin restores exactly the snapshot {x, y, width, height}.
C35_RestoredAtOrigin ==
    /\ OverlayRestoredAtOrigin
    /\ [][ (IsMoveToOrigin /\ dragState.type \in {"crop_move", "crop_resize"}) =>
             Geometry(cropState') = Snapshot(dragState) ]_vars

(***************************************************************************)
(* The edge opposite to a resize handle (checked under SpecEdit).          *)
(***************************************************************************)
IsSessionMove ==
    /\ dragState # NoDrag
    /\ dragState' = dragState
    /\ gestures' = gestures
    /\ pointer' # pointer
ResizeTarget ==
    IF dragState.type = "crop_resize" THEN Geometry(cropState')
    ELSE Geometry(overlays'[IndexOf(overlays', dragState.targetId)])
IsResizeMove ==
    /\ IsSessionMove
    /\ \/ dragState.type = "crop_resize"
       \/ dragState.type = "resize" /\ dragState.targetId \in OverlayIds
OppositeEdgesKept ==
    /\ HasLetter("l") =>
         ResizeTarget.x + ResizeTarget.width = dragState.initialX + dragState.initialW
    /\ HasLetter("t") =>
         ResizeTarget.y + ResizeTarget.height = dragState.initialY + dragState.initialH

\* where neither the 0.05 floor nor the clamp at 0 applies, the opposite
\* edges stay where the snapshot has them
EdgesKeptAwayFromLimits ==
    [][ (IsResizeMove
           /\ (dragState.type = "resize" =>
                 ResizeTarget.width > 500 /\ ResizeTarget.height > 500)
           /\ (dragState.type = "crop_resize" =>
                 ResizeTarget.x > 0 /\ ResizeTarget.y > 0))
          => OppositeEdgesKept ]_vars

\* C36: during a resize with a handle containing 'l' the right edge
\* x + width of the target stays that of the snapshot, and with a handle
\* containing 't' the bottom edge y + height, for every pointer position.
C36_OppositeEdgeFixed ==
    [][ IsResizeMove => OppositeEdgesKept ]_vars

(***************************************************************************)
(* The crop rectangle and the frame (checked under SpecCrop).              *)
(***************************************************************************)
\* the origin of the crop rectangle is never negative
CropOriginInFrame == [](cropState.x >= 0 /\ cropState.y >= 0)

\* the flag changes by the toggle only, and the toggle changes nothing else
CropFlagByToggleOnly ==
    [][ /\ (cropState'.active # cropState.active) =>
             (Geometry(cropState') = Geometry(cropState) /\ dragState' = dragState)
        /\ (Geometry(cropState') # Geometry(cropState)) =>
             (cropState'.active = cropState.active /\ dragState # NoDrag)
      ]_vars

\* C37: from the initial crop {0, 0, 1, 1}, after any crop toggles, crop
\* moves and crop resizes the rectangle is inside the frame: x >= 0, y >= 0,
\* width > 0, height > 0, x + width <= 1, y + height <= 1; the toggle
\* changes the active flag only and crop edits never change the flag.
C37_CropInsideFrame ==
    /\ [](/\ cropState.x >= 0 /\ cropState.y >= 0
          /\ cropState.width > 0 /\ cropState.height > 0
          /\ cropState.x + cropState.width <= One
          /\ cropState.y + cropState.height <= One)
    /\ CropFlagByToggleOnly

(***************************************************************************)
(* The edges of the event windows (checked under SpecWindows).             *)
(***************************************************************************)
AnticipatesAt(i, t) ==
    t >= zoomEvents[i].startTime - 200 /\ t < zoomEvents[i].startTime
CoversAt(i, t) ==
    /\ t >= zoomEvents[i].startTime
    /\ t < zoomEvents[i].startTime + zoomEvents[i].duration

\* C38: the windows are half-open.  At t = startTime the event is active
\* (its transition begins: zoom = staticZoom + 0.05 at the centre) and not
\* anticipated; at t = startTime + duration the event is over; at
\* t = startTime - 0.2 the anticipation begins with the idle pose; an event
\* of duration 0 is never active, so the solver reports an event type only
\* for an event of duration > 0 and never divides by a duration of 0.
C38_WindowsHalfOpen ==
    (WasCalled /\ config.autoZoom) =>
        LET t == solved.time
            n == Len(zoomEvents)
        IN  /\ \A i \in 1..n :
                 LET e == zoomEvents[i]
                 IN  /\ ( /\ t = e.startTime /\ e.duration > 0
                          /\ \A j \in 1..n : ~AnticipatesAt(j, t)
                          /\ \A j \in 1..(i - 1) : ~CoversAt(j, t) )
                        => /\ solved.eventType = e.type
                           /\ solved.zoom = config.zoom + 500
                           /\ solved.x = Half /\ solved.y = Half
                     /\ (t = e.startTime + e.duration /\ ~InSomeWindow(t))
                        => IsCentredAt(solved, config.zoom)
                     /\ ( /\ t = e.startTime - 200
                          /\ \A j \in 1..(i - 1) : ~AnticipatesAt(j, t) )
                        => IsCentredAt(solved, config.zoom)
            /\ solved.eventType # "null" =>
                 \E i \in 1..n :
                    /\ zoomEvents[i].type = solved.eventType
                    /\ zoomEvents[i].duration > 0
                    /\ CoversAt(i, t)

\* the solver was asked for the start time of the drag event of duration 0:
\* the event is not active and the pose is the idle one
C38_Witness ==
    /\ zoomEvents = ZeroDurationEvents
    /\ config.autoZoom
    /\ solved # NoCall /\ solved.time = 500
    /\ IsCentredAt(solved, config.zoom)

(***************************************************************************)
(* The application shell (App.tsx): the recording life cycle from the      *)
(* start screen to the editor.  The editor's own variables do not move     *)
(* while the shell is modelled.                                            *)
(***************************************************************************)
MaxStarts == 2

\* App.tsx 45, 54: both refs are assigned in the same synchronous stretch of
\* startRecording, so the stream in streamRef is the one of the recorder in
\* mediaRecorderRef
streamRef == mediaRecorderRef

\* new MediaRecorder(finalStream) followed by recorder.start(), App.tsx 53, 95
NewRecorder == [state |-> "recording", stopQueued |-> FALSE,
                trackLive |-> TRUE, stops |-> 0]

\* MediaRecorder.stop() on a recorder that is not inactive, and the user
\* agent's own stop when every track of the stream has ended: the state is
\* inactive at once and the 'stop' event is queued
Stopped(rs, k) ==
    IF rs[k].state # "inactive"
    THEN [rs EXCEPT ![k].state = "inactive", ![k].stopQueued = TRUE]
    ELSE rs

\* App.tsx 108-112
stopRecording(rs) ==
    IF mediaRecorderRef # 0 /\ rs[mediaRecorderRef].state # "inactive"
    THEN Stopped(rs, mediaRecorderRef)
    ELSE rs

\* App.tsx 131 with StartScreen's button: the click calls startRecording,
\* which waits at getDisplayMedia (App.tsx 21) and, with the microphone, at
\* getUserMedia (App.tsx 32); the button stays enabled meanwhile
ClickStart ==
    /\ appState = "IDLE"
    /\ started < MaxStarts
    /\ started' = started + 1
    /\ starting' = starting + 1
    /\ UNCHANGED << appState, videoMetadata, isPaused, mediaRecorderRef,
                    recorders, timers >>
    /\ UNCHANGED editorVars

\* App.tsx 98-105: the user dismissed the picker or the capture failed
StartRejected ==
    /\ starting > 0
    /\ starting' = starting - 1
    /\ UNCHANGED << appState, videoMetadata, isPaused, mediaRecorderRef,
                    recorders, started, timers >>
    /\ UNCHANGED editorVars

\* App.tsx 45-96: the stream was granted
StartResolved ==
    /\ starting > 0
    /\ starting' = starting - 1
    /\ recorders' = Append(recorders, NewRecorder)
    /\ mediaRecorderRef' = Len(recorders) + 1
    /\ appState' = "RECORDING"
    /\ UNCHANGED << videoMetadata, isPaused, started, timers >>
    /\ UNCHANGED editorVars

\* App.tsx 145 with RecordingOverlay's Stop button
ClickStop ==
    /\ appState = "RECORDING"
    /\ recorders' = stopRecording(recorders)
    /\ UNCHANGED << appState, videoMetadata, isPaused, mediaRecorderRef,
                    starting, started, timers >>
    /\ UNCHANGED editorVars

\* App.tsx 114-119 with RecordingOverlay's Pause button, shown while !isPaused
pauseRecording ==
    /\ appState = "RECORDING"
    /\ ~isPaused
    /\ IF mediaRecorderRef # 0 /\ recorders[mediaRecorderRef].state = "recording"
       THEN /\ recorders' = [recorders EXCEPT ![mediaRecorderRef].state = "paused"]
            /\ isPaused' = TRUE
       ELSE UNCHANGED << recorders, isPaused >>
    /\ UNCHANGED << appState, videoMetadata, mediaRecorderRef, starting,
                    started, timers >>
    /\ UNCHANGED editorVars

\* App.tsx 121-126 with RecordingOverlay's Resume button, shown while isPaused
resumeRecording ==
    /\ appState = "RECORDING"
    /\ isPaused
    /\ IF mediaRecorderRef # 0 /\ recorders[mediaRecorderRef].state = "paused"
       THEN /\ recorders' = [recorders EXCEPT ![mediaRecorderRef].state = "recording"]
            /\ isPaused' = FALSE
       ELSE UNCHANGED << recorders, isPaused >>
    /\ UNCHANGED << appState, videoMetadata, mediaRecorderRef, starting,
                    started, timers >>
    /\ UNCHANGED editorVars

\* App.tsx 84-93: the shared screen track of recording k ends (the browser's
\* "Stop sharing").  The handler stops whatever recorder the ref holds; the
\* user agent stops recorder k itself when no other track of its stream is
\* live (autoStop), which depends on the microphone and system audio
TrackEnded(k, autoStop) ==
    /\ recorders[k].trackLive
    /\ LET ended == [recorders EXCEPT ![k].trackLive = FALSE]
           handled == stopRecording(ended)
       IN  recorders' = IF autoStop THEN Stopped(handled, k) ELSE handled
    /\ UNCHANGED << appState, videoMetadata, isPaused, mediaRecorderRef,
                    starting, started, timers >>
    /\ UNCHANGED editorVars

\* App.tsx 61-81: recorder k's 'stop' event is delivered.  The cleanup stops
\* the tracks of the stream in streamRef, which ends the recorder on it
onstop(k) ==
    /\ recorders[k].stopQueued
    /\ appState' = "PROCESSING"
    /\ timers' = timers + 1
    /\ LET delivered == [recorders EXCEPT ![k].stopQueued = FALSE,
                                          ![k].stops = @ + 1]
       IN  recorders' =
               IF streamRef # 0
               THEN Stopped([delivered EXCEPT ![streamRef].trackLive = FALSE],
                            streamRef)
               ELSE delivered
    /\ UNCHANGED << videoMetadata, isPaused, mediaRecorderRef, starting,
                    started >>
    /\ UNCHANGED editorVars

\* App.tsx 70-77: the processing delay has passed
ProcessingDone ==
    /\ timers > 0
    /\ timers' = timers - 1
    /\ videoMetadata' = TRUE
    /\ appState' = "EDITING"
    /\ UNCHANGED << isPaused, mediaRecorderRef, recorders, starting, started >>
    /\ UNCHANGED editorVars

\* App.tsx 9-15: the start screen
NoEvents == { << >> }
InitApp ==
    /\ EditorInit({DEFAULT_EDITOR_CONFIG}, NoEvents)
    /\ appState = "IDLE"
    /\ videoMetadata = FALSE
    /\ isPaused = FALSE
    /\ mediaRecorderRef = 0
    /\ recorders = << >>
    /\ starting = 0
    /\ started = 0
    /\ timers = 0

AutoStops == {FALSE, TRUE}
NextApp ==
    \/ ClickStart
    \/ StartRejected
    \/ StartResolved
    \/ ClickStop
    \/ pauseRecording
    \/ resumeRecording
    \/ \E k \in DOMAIN recorders : \E a \in AutoStops : TrackEnded(k, a)
    \/ \E k \in DOMAIN recorders : onstop(k)
    \/ ProcessingDone

SpecApp == InitApp /\ [][NextApp]_vars

\* App.tsx 130-158: the order of the screens
StateRank(st) ==
    CASE st = "IDLE" -> 0
      [] st = "RECORDING" -> 1
      [] st = "PROCESSING" -> 2
      [] st = "EDITING" -> 3

\* appState moves only one step forward, or stays
Advances ==
    \/ appState' = appState
    \/ StateRank(appState') = StateRank(appState) + 1

\* every recorder's onstop has run at most once
StopHandledOnce == \A k \in DOMAIN recorders : recorders[k].stops <= 1

\* isPaused is set only by pausing a recording recorder and cleared only by
\* resuming a paused one, and the recorder in the ref is paused or resumed
\* only that way
PauseResumeGuarded ==
    /\ (~isPaused /\ isPaused') =>
           /\ recorders[mediaRecorderRef].state = "recording"
           /\ recorders'[mediaRecorderRef].state = "paused"
    /\ (isPaused /\ ~isPaused') =>
           /\ recorders[mediaRecorderRef].state = "paused"
           /\ recorders'[mediaRecorderRef].state = "recording"
    /\ \A k \in DOMAIN recorders :
           /\ recorders'[k].state = "paused" /\ recorders[k].state # "paused"
                  => recorders[k].state = "recording" /\ ~isPaused /\ isPaused'
           /\ recorders'[k].state = "recording" /\ recorders[k].state # "recording"
                  => recorders[k].state = "paused" /\ isPaused /\ ~isPaused'

\* App.tsx 156: the editor's screen comes with the metadata
EditingHasMetadata == appState = "EDITING" => videoMetadata

\* while Start Recording has been clicked once only, appState only advances
AdvancesForOneStart == [][ started' <= 1 => Advances ]_vars

\* the parts about stop, pause, resume and the editor hold whatever the
\* number of starts
StopPauseEditorParts ==
    /\ []StopHandledOnce
    /\ [][PauseResumeGuarded]_vars
    /\ []EditingHasMetadata

\* C39: appState only advances IDLE -> RECORDING -> PROCESSING -> EDITING
\* and never goes back; each recorder's stop is handled at most once; pause
\* takes effect only while recording and resume only while paused; the
\* editor's screen is reached only with the video metadata set.
C39_LifecycleAdvances ==
    /\ [][Advances]_vars
    /\ []StopHandledOnce
    /\ [][PauseResumeGuarded]_vars
    /\ []EditingHasMetadata

=============================================================================
